---- MODULE Spec2Model ----
(***************************************************************************)
(* Verification model of starrocks-br: the job-slot concurrency gate, the  *)
(* backup command run, the SHOW BACKUP monitor, the restore flow and the   *)
(* restore-chain resolvers.  Each part has its own specification over its  *)
(* own group of variables; the groups of the other parts stay unchanged.   *)
(***************************************************************************)
EXTENDS Integers, Sequences, FiniteSets, TLC

VARIABLES
    run_status,   \* ops.run_status: (scope, label) -> state, "NONE" = no row
    gate,         \* gate spec: per invocation, the reserve call in progress
    gateCalls,    \* gate spec: number of gate calls started so far
    bk,           \* backup run spec: per invocation, the state of its run
    backup_history, \* ops.backup_history: label -> status, "NONE" = no row
    poll,         \* monitor spec: one poll_backup_status call
    rf,           \* restore spec: one execute_restore_flow call
    pairq,        \* pair spec: one find_restore_pair call and its history
    chainq,       \* chain spec: one resolve_chain call and its history
    mon,          \* monitors spec: one call of a status monitor
    ex,           \* executor spec: one execute_backup / execute_restore call
    planq,        \* plan spec: one decide_backup_plan call and its inputs
    labq,         \* label spec: one generate_label / resolve_label call
    recentq,      \* baseline spec: one find_recent_partitions call
    buildq,       \* statement spec: one call of a BACKUP statement builder
    rr,           \* restore run spec: chain resolution, then the flow
    cq,           \* slot completion spec: complete_job_slot calls on a table
    twin,         \* two poll_backup_status calls on the same engine answers
    rb,           \* run_backup spec: the history table and the invocations
    xl            \* label spec of execute_backup: one statement and its slot

vars == <<run_status, gate, gateCalls, bk, backup_history, poll, rf, pairq,
          chainq, mon, ex, planq, labq, recentq, buildq, rr, cq, twin, rb,
          xl>>

\* What each specification leaves unchanged.
lastOthers == <<twin, rb, xl>>
restOthers == <<recentq, buildq, rr, cq, lastOthers>>
newOthers == <<mon, ex, planq, labq, restOthers>>
gateOthers == <<bk, backup_history, poll, rf, pairq, chainq, newOthers>>
bkOthers == <<gate, gateCalls, poll, rf, pairq, chainq, newOthers>>
pollOthers == <<run_status, gate, gateCalls, bk, backup_history, rf, pairq,
                chainq, newOthers>>
rfOthers == <<gate, gateCalls, bk, backup_history, poll, pairq, chainq,
              newOthers>>
pairOthers == <<run_status, gate, gateCalls, bk, backup_history, poll, rf,
                chainq, newOthers>>
chainOthers == <<run_status, gate, gateCalls, bk, backup_history, poll, rf,
                 pairq, newOthers>>
oldOthers == <<run_status, gate, gateCalls, bk, backup_history, poll, rf,
               pairq, chainq>>
monOthers == <<oldOthers, ex, planq, labq, restOthers>>
exOthers == <<oldOthers, mon, planq, labq, restOthers>>
planOthers == <<oldOthers, mon, ex, labq, restOthers>>
labOthers == <<oldOthers, mon, ex, planq, restOthers>>
midOthers == <<mon, ex, planq, labq>>
recentOthers == <<oldOthers, midOthers, buildq, rr, cq, lastOthers>>
buildOthers == <<oldOthers, midOthers, recentq, rr, cq, lastOthers>>
rrOthers == <<oldOthers, midOthers, recentq, buildq, cq, lastOthers>>
cqOthers == <<oldOthers, midOthers, recentq, buildq, rr, lastOthers>>
prevOthers == <<oldOthers, midOthers, recentq, buildq, rr, cq>>
twinOthers == <<prevOthers, rb, xl>>
rbOthers == <<prevOthers, twin, xl>>
xlOthers == <<prevOthers, twin, rb>>

\* ------------------------------------------------------------------------
\* Bounds
\* ------------------------------------------------------------------------
NumInvocations == 2
MaxGateCalls == 4

Invocations == 1..NumInvocations

\* ------------------------------------------------------------------------
\* ops.run_status and the concurrency gate (concurrency.py)
\* ------------------------------------------------------------------------
Scopes == {"backup", "restore"}
GateLabels == {"L1", "L2"}
RunKeys == Scopes \X GateLabels

\* Every state a monitor can return and execute_backup / execute_restore
\* hand to complete_job_slot as final_state.
MonitorStates ==
    {"FINISHED", "FAILED", "CANCELLED", "TIMEOUT", "ERROR", "LOST", "UNKNOWN"}

EmptyRunStatus == [k \in RunKeys |-> "NONE"]

\* SELECT scope, label, state FROM ops.run_status WHERE state = 'ACTIVE'
ActiveRows(rs) == {k \in DOMAIN rs : rs[k] = "ACTIVE"}

\* any(r[0] == scope for r in rows)
HasConflict(rows, scope) == \E r \in rows : r[1] = scope

\* active_labels = [r[1] for r in rows if r[0] == scope]
ActiveLabels(rows, scope) == {r[2] : r \in {x \in rows : x[1] = scope}}

\* INSERT INTO ops.run_status (scope, label, 'ACTIVE', NOW()); the table's
\* primary key is (scope, label), so a row of the same key is replaced.
InsertActive(rs, scope, label) == [rs EXCEPT ![<<scope, label>>] = "ACTIVE"]

\* The part of reserve_job_slot after its query: raise on a conflict among
\* the rows read, insert otherwise.
\* Variant that treats an ACTIVE row of any scope as a conflict.
ReserveMutIgnoresScope(rs, rows, scope, label) ==
    IF rows # {}
    THEN [raised |-> TRUE,
          err |-> [scope |-> scope, labels |-> {r[2] : r \in rows}],
          rs |-> rs, stmts |-> <<>>]
    ELSE [raised |-> FALSE, err |-> [scope |-> scope, labels |-> {}],
          rs |-> InsertActive(rs, scope, label),
          stmts |-> <<"INSERT_RUN_STATUS">>]

\* Variant that inserts the row before it looks for a conflict.
ReserveMutInsertsFirst(rs, rows, scope, label) ==
    IF HasConflict(rows, scope)
    THEN [raised |-> TRUE,
          err |-> [scope |-> scope, labels |-> ActiveLabels(rows, scope)],
          rs |-> InsertActive(rs, scope, label),
          stmts |-> <<"INSERT_RUN_STATUS">>]
    ELSE [raised |-> FALSE, err |-> [scope |-> scope, labels |-> {}],
          rs |-> InsertActive(rs, scope, label),
          stmts |-> <<"INSERT_RUN_STATUS">>]

\* reserve_job_slot as written.
ReserveAfterQuery(rs, rows, scope, label) ==
    IF HasConflict(rows, scope)
    THEN [raised |-> TRUE,
          err |-> [scope |-> scope, labels |-> ActiveLabels(rows, scope)],
          rs |-> rs, stmts |-> <<>>]
    ELSE [raised |-> FALSE, err |-> [scope |-> scope, labels |-> {}],
          rs |-> InsertActive(rs, scope, label),
          stmts |-> <<"INSERT_RUN_STATUS">>]

\* UPDATE ops.run_status SET state = final_state WHERE scope = .. AND label = ..
\* (every row of that key, whatever its state; no row, no change)
CompleteRow(rs, scope, label, final_state) ==
    IF rs[<<scope, label>>] = "NONE" THEN rs
    ELSE [rs EXCEPT ![<<scope, label>>] = final_state]

\* The variables of a part while the specification of another part runs.
GateIdleVars == gate = <<>> /\ gateCalls = 0
BkIdleVars == bk = <<>> /\ backup_history = <<>>
PollIdleVars == poll = <<>>
RfIdleVars == rf = <<>>
PairIdleVars == pairq = <<>>
ChainIdleVars == chainq = <<>>
MonIdleVars == mon = <<>>
ExIdleVars == ex = <<>>
PlanIdleVars == planq = <<>>
LabIdleVars == labq = <<>>
RecentIdleVars == recentq = <<>>
BuildIdleVars == buildq = <<>>
RrIdleVars == rr = <<>>
CqIdleVars == cq = <<>>
TwinIdleVars == twin = <<>>
RbIdleVars == rb = <<>>
XlIdleVars == xl = <<>>
LastIdleVars == TwinIdleVars /\ RbIdleVars /\ XlIdleVars
RestIdleVars ==
    /\ RecentIdleVars /\ BuildIdleVars /\ RrIdleVars /\ CqIdleVars
    /\ LastIdleVars
NewIdleVars ==
    MonIdleVars /\ ExIdleVars /\ PlanIdleVars /\ LabIdleVars /\ RestIdleVars
OldIdleVars ==
    /\ run_status = EmptyRunStatus
    /\ GateIdleVars /\ BkIdleVars /\ PollIdleVars /\ RfIdleVars
    /\ PairIdleVars /\ ChainIdleVars

GateIdle ==
    [pc |-> "idle", scope |-> "backup", label |-> "L1", rows |-> {},
     outcome |-> "none", err |-> [scope |-> "backup", labels |-> {}]]

GateInit ==
    /\ run_status = EmptyRunStatus
    /\ gate = [p \in Invocations |-> GateIdle]
    /\ gateCalls = 0
    /\ BkIdleVars /\ PollIdleVars /\ RfIdleVars /\ PairIdleVars /\ ChainIdleVars
    /\ NewIdleVars

\* reserve_job_slot, first step: the status query.
GateReserveQuery(p) ==
    /\ gate[p].pc = "idle"
    /\ gateCalls < MaxGateCalls
    /\ \E s \in Scopes, l \in GateLabels :
        gate' = [gate EXCEPT ![p] =
                    [pc |-> "queried", scope |-> s, label |-> l,
                     rows |-> ActiveRows(run_status),
                     outcome |-> "none",
                     err |-> [scope |-> s, labels |-> {}]]]
    /\ gateCalls' = gateCalls + 1
    /\ UNCHANGED <<run_status, gateOthers>>

\* reserve_job_slot, second step: conflict error or insert.
GateReserveDecide(p) ==
    /\ gate[p].pc = "queried"
    /\ LET r == ReserveAfterQuery(run_status, gate[p].rows,
                                  gate[p].scope, gate[p].label)
       IN /\ run_status' = r.rs
          /\ gate' = [gate EXCEPT ![p].pc = "idle",
                                  ![p].outcome =
                                      IF r.raised THEN "conflict" ELSE "reserved",
                                  ![p].err = r.err]
    /\ UNCHANGED <<gateCalls, gateOthers>>

\* complete_job_slot(scope, label, final_state): one UPDATE statement.
GateComplete(p) ==
    /\ gate[p].pc = "idle"
    /\ gateCalls < MaxGateCalls
    /\ \E s \in Scopes, l \in GateLabels, f \in MonitorStates :
        run_status' = CompleteRow(run_status, s, l, f)
    /\ gateCalls' = gateCalls + 1
    /\ UNCHANGED <<gate, gateOthers>>

GateNext ==
    \E p \in Invocations :
        \/ GateReserveQuery(p)
        \/ GateReserveDecide(p)
        \/ GateComplete(p)

SpecGate == GateInit /\ [][GateNext]_vars

\* ------------------------------------------------------------------------
\* Claims on the gate
\* ------------------------------------------------------------------------

\* C1: after any interleaving of reserve_job_slot and complete_job_slot calls
\* of separate invocations, run_status never holds more than one ACTIVE row
\* for the same scope.
C1_AtMostOneActivePerScope ==
    \A s \in Scopes :
        Cardinality({l \in GateLabels : run_status[<<s, l>>] = "ACTIVE"}) <= 1

\* C5: reserve_job_slot raises the conflict error iff the rows it read hold
\* an ACTIVE row of the requested scope, whatever the label; otherwise it
\* inserts exactly the row (scope, label, ACTIVE) and changes no other row.
C5_ReserveConflictIffSameScope ==
    [][\A p \in Invocations :
        (gate[p].pc = "queried" /\ gate'[p].pc = "idle") =>
            /\ (gate'[p].outcome = "conflict") <=>
                   (\E r \in gate[p].rows : r[1] = gate[p].scope)
            /\ (gate'[p].outcome = "conflict") => run_status' = run_status
            /\ (gate'[p].outcome # "conflict") =>
                   /\ gate'[p].outcome = "reserved"
                   /\ run_status'[<<gate[p].scope, gate[p].label>>] = "ACTIVE"
                   /\ \A k \in RunKeys :
                        k # <<gate[p].scope, gate[p].label>> =>
                            run_status'[k] = run_status[k]]_vars

\* C5 witness: a reserve for one scope went through although the rows it
\* read held an ACTIVE row of the other scope.
C5_Witness ==
    \E p \in Invocations :
        /\ gate[p].outcome = "reserved"
        /\ gate[p].rows # {}
        /\ \A r \in gate[p].rows : r[1] # gate[p].scope
        /\ run_status[<<gate[p].scope, gate[p].label>>] = "ACTIVE"

\* ------------------------------------------------------------------------
\* The backup command run (cli.py backup_incremental, executor.py
\* execute_backup), several invocations against one cluster
\* ------------------------------------------------------------------------

\* --name given by the operator ("" = none); names without the version
\* placeholder are used as the label unchanged.
BkNames == {"", "L2"}

\* generate_label(cfg['database'], today, 'inc') is called without
\* existing_labels: the base label of the day.
BkBaseLabel == "L1"

\* label = resolved or labels.generate_label(...)
BkLabelFor(name) == IF name = "" THEN BkBaseLabel ELSE name

\* States poll_backup_status can return.
PollBackupStates == {"FINISHED", "CANCELLED", "TIMEOUT", "ERROR", "LOST"}

\* history.log_backup: one row per label with the monitor's final state.
LogBackup(h, label, state) == [h EXCEPT ![label] = state]

BkStartState ==
    [pc |-> "start", label |-> "", rows |-> {}, reserved |-> FALSE,
     outcome |-> "none", err |-> [scope |-> "backup", labels |-> {}],
     stmts |-> <<>>, completeCalls |-> 0, final |-> "none", exit |-> -1,
     steps |-> <<>>]

BkInit ==
    /\ run_status = EmptyRunStatus
    /\ bk = [p \in Invocations |-> BkStartState]
    /\ backup_history = [l \in GateLabels |-> "NONE"]
    /\ GateIdleVars /\ PollIdleVars /\ RfIdleVars /\ PairIdleVars /\ ChainIdleVars
    /\ NewIdleVars

BkExit(p, outcome, code) ==
    bk' = [bk EXCEPT ![p].pc = "done", ![p].outcome = outcome, ![p].exit = code]

\* Configuration, health check, repository check, then label resolution.
\* A failed check exits before any control table is touched.
BkStart(p) ==
    /\ bk[p].pc = "start"
    /\ \/ BkExit(p, "preflight_failed", 1)
       \/ \E n \in BkNames :
            bk' = [bk EXCEPT ![p].pc = "reserve", ![p].label = BkLabelFor(n),
                             ![p].steps = Append(bk[p].steps, "label")]
    /\ UNCHANGED <<run_status, backup_history, bkOthers>>

\* reserve_job_slot: the query for ACTIVE rows.
BkReserveQuery(p) ==
    /\ bk[p].pc = "reserve"
    /\ bk' = [bk EXCEPT ![p].pc = "queried", ![p].rows = ActiveRows(run_status),
                        ![p].steps = Append(bk[p].steps, "reserve")]
    /\ UNCHANGED <<run_status, backup_history, bkOthers>>

\* reserve_job_slot: conflict (RuntimeError, exit 1) or insert.
BkReserveDecide(p) ==
    /\ bk[p].pc = "queried"
    /\ LET r == ReserveAfterQuery(run_status, bk[p].rows, "backup", bk[p].label)
       IN /\ run_status' = r.rs
          /\ bk' = [bk EXCEPT
                ![p].pc = IF r.raised THEN "done" ELSE "plan",
                ![p].outcome = IF r.raised THEN "conflict" ELSE "none",
                ![p].exit = IF r.raised THEN 1 ELSE -1,
                ![p].err = r.err,
                ![p].reserved = ~r.raised,
                ![p].stmts = bk[p].stmts \o r.stmts]
    /\ UNCHANGED <<backup_history, bkOthers>>

\* Baseline lookup and find_recent_partitions: it raises (no baseline),
\* returns nothing (exit 1) or returns partitions (command is built).
BkPlan(p) ==
    /\ bk[p].pc = "plan"
    /\ \/ \E o \in {"plan_raised", "no_partitions"} :
            bk' = [bk EXCEPT ![p].pc = "done", ![p].outcome = o,
                             ![p].exit = 1,
                             ![p].steps = Append(bk[p].steps, "plan")]
       \/ bk' = [bk EXCEPT ![p].pc = "submit",
                           ![p].steps = Append(bk[p].steps, "plan")]
    /\ UNCHANGED <<run_status, backup_history, bkOthers>>

\* execute_backup: submit_backup_command; a failed submission returns at
\* once (final_status None) and the command exits 1.
BkSubmit(p) ==
    /\ bk[p].pc = "submit"
    /\ \/ bk' = [bk EXCEPT ![p].pc = "done", ![p].outcome = "submit_failed",
                           ![p].exit = 1,
                           ![p].steps = Append(bk[p].steps, "submit")]
       \/ bk' = [bk EXCEPT ![p].pc = "poll",
                           ![p].stmts = Append(bk[p].stmts, "BACKUP"),
                           ![p].steps = Append(bk[p].steps, "submit")]
    /\ UNCHANGED <<run_status, backup_history, bkOthers>>

\* execute_backup: poll_backup_status returns its final state.
BkPoll(p) ==
    /\ bk[p].pc = "poll"
    /\ \E st \in PollBackupStates :
        bk' = [bk EXCEPT ![p].pc = "log", ![p].final = st,
                         ![p].steps = Append(bk[p].steps, "poll")]
    /\ UNCHANGED <<run_status, backup_history, bkOthers>>

\* execute_backup: history.log_backup, an exception is swallowed.
BkLogHistory(p) ==
    /\ bk[p].pc = "log"
    /\ \/ /\ backup_history' = LogBackup(backup_history, bk[p].label, bk[p].final)
          /\ bk' = [bk EXCEPT ![p].pc = "complete",
                              ![p].stmts = Append(bk[p].stmts, "HISTORY"),
                              ![p].steps = Append(bk[p].steps, "finalize")]
       \/ /\ bk' = [bk EXCEPT ![p].pc = "complete",
                              ![p].steps = Append(bk[p].steps, "finalize")]
          /\ UNCHANGED backup_history
    /\ UNCHANGED <<run_status, bkOthers>>

\* execute_backup: complete_job_slot, an exception is swallowed; then the
\* result is returned and the command exits 0 on FINISHED, 1 otherwise.
BkComplete(p) ==
    /\ bk[p].pc = "complete"
    /\ \/ run_status' = CompleteRow(run_status, "backup", bk[p].label, bk[p].final)
       \/ UNCHANGED run_status
    /\ bk' = [bk EXCEPT ![p].pc = "done",
                        ![p].outcome = "monitored",
                        ![p].completeCalls = bk[p].completeCalls + 1,
                        ![p].exit = IF bk[p].final = "FINISHED" THEN 0 ELSE 1]
    /\ UNCHANGED <<backup_history, bkOthers>>

BkNext ==
    \E p \in Invocations :
        \/ BkStart(p)
        \/ BkReserveQuery(p)
        \/ BkReserveDecide(p)
        \/ BkPlan(p)
        \/ BkSubmit(p)
        \/ BkPoll(p)
        \/ BkLogHistory(p)
        \/ BkComplete(p)

SpecBackup == BkInit /\ [][BkNext]_vars

\* ------------------------------------------------------------------------
\* Claims on the backup run
\* ------------------------------------------------------------------------

\* C4: once reserve_job_slot has succeeded in a backup run, every path to
\* the end of the run calls complete_job_slot for the reserved slot.
C4_ReservedRunCompletesSlot ==
    \A p \in Invocations :
        (bk[p].pc = "done" /\ bk[p].reserved) => bk[p].completeCalls >= 1

\* C6: a run whose reserve_job_slot found an ACTIVE row of its scope ends
\* in failure with an error naming the scope and the blocking labels, and
\* has executed no statement: no run_status insert, no BACKUP, no history
\* or partition row.
C6_ConflictLeavesNoState ==
    \A p \in Invocations :
        bk[p].outcome = "conflict" =>
            /\ bk[p].pc = "done"
            /\ bk[p].exit = 1
            /\ ~bk[p].reserved
            /\ bk[p].err.scope = "backup"
            /\ bk[p].err.labels # {}
            /\ bk[p].err.labels =
                   {r[2] : r \in {x \in bk[p].rows : x[1] = "backup"}}
            /\ bk[p].stmts = <<>>
            /\ bk[p].completeCalls = 0

\* C6 witness: one run holds the slot and another run ended on the conflict.
C6_Witness ==
    \E p, q \in Invocations :
        /\ p # q
        /\ bk[p].outcome = "conflict"
        /\ bk[p].pc = "done"
        /\ bk[q].reserved
        /\ bk[q].label \in bk[p].err.labels

\* The run has sent its BACKUP statement.
BkSubmitted(p) == \E i \in 1..Len(bk[p].stmts) : bk[p].stmts[i] = "BACKUP"

\* C18 as stated: no two backup runs against one cluster, on the same day
\* with the same backup type included, sequential or overlapping, reserve
\* a slot or submit a BACKUP statement under the same label.
C18_LabelsUniqueAcrossRuns ==
    \A p, q \in Invocations :
        (p # q /\ bk[p].label = bk[q].label) =>
            /\ ~(bk[p].reserved /\ bk[q].reserved)
            /\ ~(BkSubmitted(p) /\ BkSubmitted(q))

\* ------------------------------------------------------------------------
\* The backup monitor (executor.py poll_backup_status)
\* ------------------------------------------------------------------------

\* Largest max_polls argument the model passes (the default is MAX_POLLS).
MaxPollArg == 3

\* Snapshot names SHOW BACKUP can report; "" is what the code reads from a
\* row too short to hold a name.
SnapshotNames == {"L1", "L2", ""}

\* States SHOW BACKUP can report; "UNKNOWN" is what the code reads from a
\* row too short to hold a state.
EngineStates == {"RUNNING", "FINISHED", "CANCELLED", "FAILED", "UNKNOWN"}

\* One answer of db.query("SHOW BACKUP FROM db"): an exception, no row, or
\* a first row with its snapshot name and state.
EngineResponses ==
    {[kind |-> "exception", name |-> "", state |-> "UNKNOWN"],
     [kind |-> "empty", name |-> "", state |-> "UNKNOWN"]}
    \cup {[kind |-> "row", name |-> n, state |-> st] :
            n \in SnapshotNames, st \in EngineStates}

\* One iteration of the loop of poll_backup_status after its query:
\* ret = "none" means sleep and continue.
\* Variant without the tolerance for a first mismatching answer.
PollMutNoFirstPollGrace(first_poll, label, resp) ==
    IF resp.kind = "exception" THEN [ret |-> "ERROR", first_poll |-> first_poll]
    ELSE IF resp.kind = "empty" THEN [ret |-> "none", first_poll |-> first_poll]
    ELSE IF resp.name # label
         THEN [ret |-> "LOST", first_poll |-> first_poll]
         ELSE IF resp.state \in {"FINISHED", "CANCELLED"}
              THEN [ret |-> resp.state, first_poll |-> FALSE]
              ELSE [ret |-> "none", first_poll |-> FALSE]

\* The loop body as written.
PollIteration(first_poll, label, resp) ==
    IF resp.kind = "exception" THEN [ret |-> "ERROR", first_poll |-> first_poll]
    ELSE IF resp.kind = "empty" THEN [ret |-> "none", first_poll |-> first_poll]
    ELSE IF resp.name # label
         THEN IF first_poll THEN [ret |-> "none", first_poll |-> FALSE]
              ELSE [ret |-> "LOST", first_poll |-> first_poll]
         ELSE IF resp.state \in {"FINISHED", "CANCELLED"}
              THEN [ret |-> resp.state, first_poll |-> FALSE]
              ELSE [ret |-> "none", first_poll |-> FALSE]

\* A call poll_backup_status(db, label, database, max_polls): first_poll is
\* True and no query has been made; log records the answers received.
PollInit ==
    /\ \E l \in {"L1", "L2"}, mp \in 0..MaxPollArg :
        poll = [pc |-> "polling", label |-> l, max_polls |-> mp,
                first_poll |-> TRUE, log |-> <<>>, result |-> "none"]
    /\ run_status = EmptyRunStatus
    /\ GateIdleVars /\ BkIdleVars /\ RfIdleVars /\ PairIdleVars /\ ChainIdleVars
    /\ NewIdleVars

\* One loop iteration: the status query and what the code does with it.
PollQuery ==
    /\ poll.pc = "polling"
    /\ Len(poll.log) < poll.max_polls
    /\ \E resp \in EngineResponses :
        LET r == PollIteration(poll.first_poll, poll.label, resp)
        IN poll' = [poll EXCEPT
                      !.log = Append(poll.log, resp),
                      !.first_poll = r.first_poll,
                      !.pc = IF r.ret = "none" THEN "polling" ELSE "returned",
                      !.result = r.ret]
    /\ UNCHANGED pollOthers

\* The loop ran max_polls times without returning.
PollTimeout ==
    /\ poll.pc = "polling"
    /\ Len(poll.log) = poll.max_polls
    /\ poll' = [poll EXCEPT !.pc = "returned", !.result = "TIMEOUT"]
    /\ UNCHANGED pollOthers

PollNext == PollQuery \/ PollTimeout

SpecPoll == PollInit /\ [][PollNext]_vars

\* ------------------------------------------------------------------------
\* Claims on the backup monitor
\* ------------------------------------------------------------------------

IsMismatch(resp, label) == resp.kind = "row" /\ resp.name # label

ReturnedAt(i, state) ==
    poll.pc = "returned" /\ poll.result = state /\ Len(poll.log) = i

\* C2 as stated: on any status query after the first one of a call,
\* counting the queries that returned no rows, a snapshot name different
\* from the tracked label makes the call return LOST with no further query.
C2_LostOnAnyLaterMismatch ==
    \A i \in 2..Len(poll.log) :
        IsMismatch(poll.log[i], poll.label) => ReturnedAt(i, "LOST")

\* What the code does instead (first_poll is cleared only by an answer that
\* holds a row): LOST is returned on a mismatch that follows an earlier
\* answer with a row.
PollLostAfterFirstRow ==
    \A i \in 2..Len(poll.log) :
        (/\ IsMismatch(poll.log[i], poll.label)
         /\ \E j \in 1..(i - 1) : poll.log[j].kind = "row")
            => ReturnedAt(i, "LOST")

\* C3: a first status query that reports another snapshot name neither
\* fails nor returns LOST; the monitor polls on (it stops on that answer
\* only when max_polls = 1 leaves no poll, with TIMEOUT), and a later query
\* that reports the tracked label FINISHED makes the call return FINISHED.
C3_FirstMismatchTolerated ==
    (Len(poll.log) >= 1 /\ IsMismatch(poll.log[1], poll.label)) =>
        /\ Len(poll.log) = 1 =>
               \/ poll.pc = "polling" /\ poll.result = "none"
               \/ poll.max_polls = 1 /\ ReturnedAt(1, "TIMEOUT")
        /\ \A i \in 2..Len(poll.log) :
             (/\ poll.log[i].kind = "row"
              /\ poll.log[i].name = poll.label
              /\ poll.log[i].state = "FINISHED")
                => ReturnedAt(i, "FINISHED")

\* C3 witness: first answer names another snapshot, a later one the tracked
\* label FINISHED, and the call returned FINISHED.
C3_Witness ==
    /\ Len(poll.log) >= 2
    /\ IsMismatch(poll.log[1], poll.label)
    /\ poll.pc = "returned" /\ poll.result = "FINISHED"

\* ------------------------------------------------------------------------
\* The restore flow (restore.py execute_restore_flow, execute_restore,
\* _build_restore_command_*, _perform_atomic_rename)
\* ------------------------------------------------------------------------

\* Longest tables_to_restore list of the model.
MaxRestoreTables == 2

\* Tables are (database, table) as split from "database.table"; a table
\* name is a sequence of name parts so that suffixing is concatenation.
RfDatabase == "db1"
RfTableNames == <<"t1", "t2", "t3">>
RfTableLists ==
    {[i \in 1..n |-> <<RfDatabase, <<RfTableNames[i]>> >>] :
        n \in 0..MaxRestoreTables}

\* find_restore_pair hands over [full] or [full, incremental]; the flow
\* itself guards against the empty list.
RfFullLabel == "L1"
RfIncLabel == "L2"
RfPairs == {<<>>, <<RfFullLabel>>, <<RfFullLabel, RfIncLabel>>}

\* Answers to the confirmation prompt as typed.
RfAnswers == {"y", "Y", " y", "n", "", "yes"}
\* confirmation.strip() and confirmation.lower() on these answers.
Strip(a) == IF a = " y" THEN "y" ELSE a
Lower(a) == IF a = "Y" THEN "y" ELSE a

\* The answer lets the flow proceed: not (confirmation.lower() != 'y').
\* Variant that takes the empty answer for the default Y of "[Y/n]".
ConfirmedMutEmptyIsYes(answer) ==
    Lower(Strip(answer)) = "y" \/ Strip(answer) = ""

Confirmed(answer) == Lower(Strip(answer)) = "y"

\* rename_suffix default
RenameSuffix == "_restored"

\* f"{table_name}{rename_suffix}"
Suffixed(table_name, suffix) == Append(table_name, suffix)

\* A RESTORE statement is modelled by what the engine does with it:
\* for each clause, the table of the snapshot it reads (src) and the table
\* name it writes (dest): "TABLE t AS x" writes x, "TABLE t" writes t.
BuildRestoreWithRename(backup_label, repo_name, tables, rename_suffix) ==
    [kind |-> "RESTORE", label |-> backup_label, repo |-> repo_name,
     clauses |-> [i \in 1..Len(tables) |->
                    [src |-> tables[i][2],
                     dest |-> Suffixed(tables[i][2], rename_suffix)]]]

BuildRestoreWithoutRename(backup_label, repo_name, tables) ==
    [kind |-> "RESTORE", label |-> backup_label, repo |-> repo_name,
     clauses |-> [i \in 1..Len(tables) |->
                    [src |-> tables[i][2], dest |-> tables[i][2]]]]

\* rename_statements of _perform_atomic_rename, in execution order.
\* Variant that renames the temporary table before the live table.
RenameMutTempFirst(tables, rename_suffix) ==
    [k \in 1..(2 * Len(tables)) |->
        LET t == tables[(k + 1) \div 2]
        IN IF k % 2 = 0
           THEN [kind |-> "RENAME", db |-> t[1], from |-> t[2],
                 to |-> Suffixed(t[2], "_backup")]
           ELSE [kind |-> "RENAME", db |-> t[1],
                 from |-> Suffixed(t[2], rename_suffix), to |-> t[2]]]

RenameStatements(tables, rename_suffix) ==
    [k \in 1..(2 * Len(tables)) |->
        LET t == tables[(k + 1) \div 2]
        IN IF k % 2 = 1
           THEN [kind |-> "RENAME", db |-> t[1], from |-> t[2],
                 to |-> Suffixed(t[2], "_backup")]
           ELSE [kind |-> "RENAME", db |-> t[1],
                 from |-> Suffixed(t[2], rename_suffix), to |-> t[2]]]

\* States poll_restore_status can return.
PollRestoreStates ==
    {"FINISHED", "FAILED", "CANCELLED", "UNKNOWN", "ERROR", "TIMEOUT"}

\* Where execute_restore_flow goes after execute_restore returned for a
\* step whose monitor ended in `state`.
\* Variant that goes on whatever the step's monitor returned.
RfMutIgnoresStepResult(step, state, pair) ==
    IF step = "base" /\ Len(pair) > 1 THEN "inc_submit" ELSE "rename"

RfAfterStep(step, state, pair) ==
    IF state # "FINISHED" THEN "failed"
    ELSE IF step = "base" /\ Len(pair) > 1 THEN "inc_submit"
    ELSE "rename"

\* The statement of a step.
RfStepCommand(step, pair, tables) ==
    IF step = "base"
    THEN BuildRestoreWithRename(pair[1], "repo", tables, RenameSuffix)
    ELSE BuildRestoreWithoutRename(pair[2], "repo", tables)

\* history.log_restore: one more restore_history row.
LogRestore(logged, label, restore_type, state) ==
    Append(logged, [label |-> label, type |-> restore_type, status |-> state])

RfInit ==
    /\ \E pr \in RfPairs, tl \in RfTableLists, a \in RfAnswers :
        rf = [pc |-> "start", pair |-> pr, tables |-> tl, answer |-> a,
              step |-> "base", calls |-> <<>>, monitored |-> <<>>,
              logged |-> <<>>, renamed |-> 0, success |-> FALSE,
              message |-> "none"]
    /\ run_status = EmptyRunStatus
    /\ GateIdleVars /\ BkIdleVars /\ PollIdleVars /\ PairIdleVars /\ ChainIdleVars
    /\ NewIdleVars

RfReturn(pcv, ok, msg) ==
    rf' = [rf EXCEPT !.pc = pcv, !.success = ok, !.message = msg]

\* The guards and the confirmation prompt.
RfStart ==
    /\ rf.pc = "start"
    /\ IF rf.pair = <<>> THEN RfReturn("done", FALSE, "No restore pair provided")
       ELSE IF rf.tables = <<>> THEN RfReturn("done", FALSE, "No tables to restore")
       ELSE IF ~Confirmed(rf.answer)
            THEN RfReturn("done", FALSE, "Restore operation cancelled by user")
       ELSE rf' = [rf EXCEPT !.pc = "base_submit", !.step = "base"]
    /\ UNCHANGED <<run_status, rfOthers>>

\* execute_restore: db.execute(restore_command); an exception returns a
\* failure at once and the flow returns "... restore failed".
RfSubmit ==
    /\ rf.pc \in {"base_submit", "inc_submit"}
    /\ LET cmd == RfStepCommand(rf.step, rf.pair, rf.tables)
       IN \/ rf' = [rf EXCEPT
                      !.calls = Append(rf.calls, [stmt |-> cmd, ok |-> FALSE]),
                      !.pc = "done", !.success = FALSE,
                      !.message = "restore failed: submit"]
          \/ rf' = [rf EXCEPT
                      !.calls = Append(rf.calls, [stmt |-> cmd, ok |-> TRUE]),
                      !.pc = "monitor"]
    /\ UNCHANGED <<run_status, rfOthers>>

\* execute_restore: poll_restore_status, history.log_restore and
\* complete_job_slot (both best-effort), then the flow's decision.
RfMonitor ==
    /\ rf.pc = "monitor"
    /\ \E st \in PollRestoreStates, logOk \in BOOLEAN, completeOk \in BOOLEAN :
        LET label == IF rf.step = "base" THEN rf.pair[1] ELSE rf.pair[2]
            type == IF rf.step = "base" THEN "full" ELSE "incremental"
            nxt == RfAfterStep(rf.step, st, rf.pair)
        IN /\ rf' = [rf EXCEPT
                       !.monitored = Append(rf.monitored, st),
                       !.logged = IF logOk
                                  THEN LogRestore(rf.logged, label, type, st)
                                  ELSE rf.logged,
                       !.pc = IF nxt = "failed" THEN "done" ELSE nxt,
                       !.step = IF nxt = "inc_submit" THEN "inc" ELSE rf.step,
                       !.message = IF nxt = "failed"
                                   THEN "restore failed: state" ELSE rf.message]
           /\ run_status' = IF completeOk
                            THEN CompleteRow(run_status, "restore", label, st)
                            ELSE run_status
    /\ UNCHANGED rfOthers

\* str(e) of the exception db.execute raises on a RENAME statement, and
\* the error_message the flow returns for it:
\* "Atomic rename failed: Failed to perform atomic rename: {e}".
RenameErrors == {"E1", "E2"}
RenameFailureMessage(e) ==
    IF e = "E1" THEN "Atomic rename failed: Failed to perform atomic rename: E1"
    ELSE "Atomic rename failed: Failed to perform atomic rename: E2"

\* _perform_atomic_rename: the next rename statement; an exception ends
\* the cutover with a failure.
RfRename ==
    /\ rf.pc = "rename"
    /\ rf.renamed < 2 * Len(rf.tables)
    /\ LET st == RenameStatements(rf.tables, RenameSuffix)[rf.renamed + 1]
       IN \/ rf' = [rf EXCEPT
                      !.calls = Append(rf.calls, [stmt |-> st, ok |-> TRUE]),
                      !.renamed = rf.renamed + 1]
          \/ \E e \in RenameErrors :
                rf' = [rf EXCEPT
                      !.calls = Append(rf.calls, [stmt |-> st, ok |-> FALSE]),
                      !.pc = "done", !.success = FALSE,
                      !.message = RenameFailureMessage(e)]
    /\ UNCHANGED <<run_status, rfOthers>>

\* All renames executed: the flow returns success.
RfFinish ==
    /\ rf.pc = "rename"
    /\ rf.renamed = 2 * Len(rf.tables)
    /\ RfReturn("done", TRUE, "Restore completed successfully")
    /\ UNCHANGED <<run_status, rfOthers>>

RfNext == RfStart \/ RfSubmit \/ RfMonitor \/ RfRename \/ RfFinish

SpecRestore == RfInit /\ [][RfNext]_vars

\* ------------------------------------------------------------------------
\* Claims on the restore flow
\* ------------------------------------------------------------------------

\* Positions of the RESTORE statements among the db.execute calls.
RfRestoreCalls == SelectSeq(rf.calls, LAMBDA c : c.stmt.kind = "RESTORE")

\* C7: the RESTORE statements are submitted in chain order, the full
\* (first) label first and never skipped, and a step is submitted only
\* after the preceding step was accepted and its monitor returned FINISHED.
C7_RestoreInChainOrder ==
    LET rc == RfRestoreCalls
    IN /\ Len(rc) <= Len(rf.pair)
       /\ \A i \in 1..Len(rc) : rc[i].stmt.label = rf.pair[i]
       /\ \A i \in 2..Len(rc) :
            /\ rc[i - 1].ok
            /\ Len(rf.monitored) >= i - 1
            /\ rf.monitored[i - 1] = "FINISHED"
       /\ \A k \in 1..Len(rf.calls) :
            rf.calls[k].stmt.kind = "RENAME" =>
                \E j \in 1..(k - 1) :
                    /\ rf.calls[j].stmt.kind = "RESTORE"
                    /\ rf.calls[j].stmt.label = rf.pair[1]

\* C7 witness: full and incremental restore both submitted and finished.
C7_Witness ==
    /\ Len(RfRestoreCalls) = 2
    /\ RfRestoreCalls[1].stmt.label = RfFullLabel
    /\ RfRestoreCalls[2].stmt.label = RfIncLabel
    /\ rf.monitored = <<"FINISHED", "FINISHED">>
    /\ rf.pc = "done" /\ rf.success

\* C8: every RESTORE statement the flow submits writes only the suffixed
\* temporary table of each target table, never the live table name.
C8_RestoreWritesOnlyTempTables ==
    \A k \in 1..Len(rf.calls) :
        rf.calls[k].stmt.kind = "RESTORE" =>
            \A i \in 1..Len(rf.calls[k].stmt.clauses) :
                /\ rf.calls[k].stmt.clauses[i].dest
                       = Suffixed(rf.tables[i][2], RenameSuffix)
                /\ rf.calls[k].stmt.clauses[i].dest # rf.tables[i][2]

\* ------------------------------------------------------------------------
\* The label-indexed restore pair (restore.py find_restore_pair)
\* ------------------------------------------------------------------------

\* Largest finished_at of the model's history rows.
MaxTime == 3

\* Labels are sequences of characters, so that split('_') and LIKE act on
\* them as they do on strings.
LabelA1 == <<"a", "_", "1">>
LabelA2 == <<"a", "_", "2">>
LabelAB1 == <<"a", "b", "_", "1">>
LabelB1 == <<"b", "_", "1">>
PairLabels == {LabelA1, LabelA2, LabelAB1, LabelB1}

BackupTypes == {"full", "incremental", "weekly"}
HistoryStatuses == {"FINISHED", "FAILED"}

\* A row of ops.backup_history (label is the primary key), or no row.
NoRow == [present |-> FALSE, backup_type |-> "full", status |-> "FAILED",
          finished_at |-> 0]
HistoryRows ==
    {NoRow} \cup
    [present : {TRUE}, backup_type : BackupTypes, status : HistoryStatuses,
     finished_at : 1..MaxTime]

\* target_label.split('_')[0]
RECURSIVE SplitFirst(_)
SplitFirst(label) ==
    IF label = <<>> \/ Head(label) = "_" THEN <<>>
    ELSE <<Head(label)>> \o SplitFirst(Tail(label))

\* label LIKE '{prefix}_%': the prefix, then any one character ('_' is the
\* single-character wildcard of LIKE), then anything.
LikePrefixUnderscore(label, prefix) ==
    /\ Len(label) >= Len(prefix) + 1
    /\ SubSeq(label, 1, Len(prefix)) = prefix

\* Rows of the second query of find_restore_pair before ORDER BY / LIMIT.
\* Variant without the finished_at < target condition.
FullCandidatesMutNoTimeFilter(hist, target_label) ==
    {l \in DOMAIN hist :
        /\ hist[l].present
        /\ hist[l].backup_type = "full"
        /\ hist[l].status = "FINISHED"
        /\ LikePrefixUnderscore(l, SplitFirst(target_label))}

\* The WHERE clause as written.
FullCandidates(hist, target_label) ==
    {l \in DOMAIN hist :
        /\ hist[l].present
        /\ hist[l].backup_type = "full"
        /\ hist[l].status = "FINISHED"
        /\ LikePrefixUnderscore(l, SplitFirst(target_label))
        /\ hist[l].finished_at < hist[target_label].finished_at}

\* ORDER BY finished_at DESC LIMIT 1: any row of greatest finished_at.
LatestOf(hist, labels) ==
    {l \in labels : \A g \in labels : hist[g].finished_at <= hist[l].finished_at}

\* The results find_restore_pair can produce: a ValueError or a list.
FindRestorePair(hist, target_label) ==
    IF ~(hist[target_label].present /\ hist[target_label].status = "FINISHED")
    THEN {[raised |-> TRUE, pair |-> <<>>]}
    ELSE IF hist[target_label].backup_type = "full"
    THEN {[raised |-> FALSE, pair |-> <<target_label>>]}
    ELSE IF hist[target_label].backup_type = "incremental"
    THEN IF FullCandidates(hist, target_label) = {}
         THEN {[raised |-> TRUE, pair |-> <<>>]}
         ELSE {[raised |-> FALSE, pair |-> <<f, target_label>>] :
                 f \in LatestOf(hist, FullCandidates(hist, target_label))}
    ELSE {[raised |-> TRUE, pair |-> <<>>]}

PairInit ==
    /\ \E h \in [PairLabels -> HistoryRows], t \in PairLabels :
        pairq = [hist |-> h, target |-> t, pc |-> "call",
                 out |-> [raised |-> FALSE, pair |-> <<>>]]
    /\ run_status = EmptyRunStatus
    /\ GateIdleVars /\ BkIdleVars /\ PollIdleVars /\ RfIdleVars /\ ChainIdleVars
    /\ NewIdleVars

\* One call find_restore_pair(db, target_label).
PairCall ==
    /\ pairq.pc = "call"
    /\ \E r \in FindRestorePair(pairq.hist, pairq.target) :
        pairq' = [pairq EXCEPT !.pc = "returned", !.out = r]
    /\ UNCHANGED pairOthers

PairNext == PairCall

SpecPair == PairInit /\ [][PairNext]_vars

\* ------------------------------------------------------------------------
\* Claims on find_restore_pair
\* ------------------------------------------------------------------------

PairTargetFinished ==
    pairq.hist[pairq.target].present /\ pairq.hist[pairq.target].status = "FINISHED"

\* FINISHED full backups finished strictly before the target.
PairFullsBefore ==
    {l \in PairLabels :
        /\ pairq.hist[l].present
        /\ pairq.hist[l].backup_type = "full"
        /\ pairq.hist[l].status = "FINISHED"
        /\ pairq.hist[l].finished_at < pairq.hist[pairq.target].finished_at}

\* Those among them whose label matches LIKE '<p>_%', p being the target
\* label up to its first '_'.
PairFullsBeforeLike ==
    {l \in PairFullsBefore : LikePrefixUnderscore(l, SplitFirst(pairq.target))}

PairIsLatestIn(f, labels) ==
    /\ f \in labels
    /\ \A g \in labels : pairq.hist[g].finished_at <= pairq.hist[f].finished_at

\* C9 as stated: [target] for a FINISHED full target; [F, target] for a
\* FINISHED incremental target, F being the FINISHED full backup of
\* greatest finished_at among those finished strictly before the target.
C9_PairNearestFullOfAll ==
    (pairq.pc = "returned" /\ PairTargetFinished) =>
        /\ pairq.hist[pairq.target].backup_type = "full" =>
               pairq.out = [raised |-> FALSE, pair |-> <<pairq.target>>]
        /\ (pairq.hist[pairq.target].backup_type = "incremental"
                /\ PairFullsBefore # {}) =>
               /\ ~pairq.out.raised
               /\ Len(pairq.out.pair) = 2
               /\ pairq.out.pair[2] = pairq.target
               /\ PairIsLatestIn(pairq.out.pair[1], PairFullsBefore)

\* C9 amended: as stated, with F taken among the FINISHED full backups
\* finished strictly before the target whose label matches the pattern
\* '<p>_%' (p = the target label up to its first '_', '_' matching any one
\* character); with no such backup the call raises.
C9_PairNearestFullOfLike ==
    (pairq.pc = "returned" /\ PairTargetFinished) =>
        /\ pairq.hist[pairq.target].backup_type = "full" =>
               pairq.out = [raised |-> FALSE, pair |-> <<pairq.target>>]
        /\ pairq.hist[pairq.target].backup_type = "incremental" =>
               IF PairFullsBeforeLike = {}
               THEN pairq.out.raised
               ELSE /\ ~pairq.out.raised
                    /\ Len(pairq.out.pair) = 2
                    /\ pairq.out.pair[2] = pairq.target
                    /\ PairIsLatestIn(pairq.out.pair[1], PairFullsBeforeLike)

\* C9 witness: an incremental target with two earlier matching full
\* backups of different times and a later full backup; the latest earlier
\* one is prepended.
C9_Witness ==
    /\ pairq.pc = "returned"
    /\ PairTargetFinished
    /\ pairq.hist[pairq.target].backup_type = "incremental"
    /\ Cardinality(PairFullsBeforeLike) >= 2
    /\ \E f, g \in PairFullsBeforeLike :
         pairq.hist[g].finished_at < pairq.hist[f].finished_at
    /\ ~pairq.out.raised
    /\ PairIsLatestIn(pairq.out.pair[1], PairFullsBeforeLike)

\* ------------------------------------------------------------------------
\* The timestamp-indexed restore chain (resolve_chain, spec section 4.5)
\* ------------------------------------------------------------------------

ChainSnapshots == {"s1", "s2", "s3"}

\* A history row as the resolver sees it for one table: kind, status,
\* completion timestamp, and whether the backup covers the table.
ChainNoRow == [present |-> FALSE, kind |-> "full", status |-> "FAILED",
               ts |-> 0, covers |-> FALSE]
ChainRows ==
    {ChainNoRow} \cup
    [present : {TRUE}, kind : {"full", "incremental"},
     status : HistoryStatuses, ts : 1..MaxTime, covers : BOOLEAN]

\* Step 1: FINISHED full backups completed at or before the target.
ChainFulls(hist, target_ts) ==
    {x \in DOMAIN hist :
        /\ hist[x].present /\ hist[x].kind = "full"
        /\ hist[x].status = "FINISHED" /\ hist[x].ts <= target_ts}

\* Step 1: the latest of them.
ChainLatestFull(hist, target_ts) ==
    {f \in ChainFulls(hist, target_ts) :
        \A g \in ChainFulls(hist, target_ts) : hist[g].ts <= hist[f].ts}

\* Step 2: FINISHED incrementals of the table completed at or before the
\* target.
ChainIncrementals(hist, target_ts) ==
    {x \in DOMAIN hist :
        /\ hist[x].present /\ hist[x].kind = "incremental" /\ hist[x].covers
        /\ hist[x].status = "FINISHED" /\ hist[x].ts <= target_ts}

\* Step 3: those strictly after the chosen full backup.
\* (variant that skips the filter)
ChainFilterMutKeepsAll(hist, incs, full) == incs

ChainFilter(hist, incs, full) == {x \in incs : hist[x].ts > hist[full].ts}

\* Ascending orderings of a set of snapshots by completion timestamp.
AscendingOrders(hist, set) ==
    {q \in [1..Cardinality(set) -> set] :
        /\ \A i, j \in 1..Cardinality(set) : i # j => q[i] # q[j]
        /\ \A i, j \in 1..Cardinality(set) : i < j => hist[q[i]].ts <= hist[q[j]].ts}

\* Step 4: the chains resolve_chain can return, or the fatal error.
ResolveChain(hist, target_ts) ==
    IF ChainFulls(hist, target_ts) = {}
    THEN {[raised |-> TRUE, chain |-> <<>>]}
    ELSE UNION {
            {[raised |-> FALSE, chain |-> <<f>> \o q] :
                q \in AscendingOrders(hist,
                        ChainFilter(hist, ChainIncrementals(hist, target_ts), f))} :
            f \in ChainLatestFull(hist, target_ts)}

ChainInit ==
    /\ \E h \in [ChainSnapshots -> ChainRows], t \in 1..MaxTime :
        chainq = [hist |-> h, target |-> t, pc |-> "call",
                  out |-> [raised |-> FALSE, chain |-> <<>>]]
    /\ run_status = EmptyRunStatus
    /\ GateIdleVars /\ BkIdleVars /\ PollIdleVars /\ RfIdleVars /\ PairIdleVars
    /\ NewIdleVars

\* One call resolve_chain(history, table, target_timestamp).
ChainCall ==
    /\ chainq.pc = "call"
    /\ \E r \in ResolveChain(chainq.hist, chainq.target) :
        chainq' = [chainq EXCEPT !.pc = "returned", !.out = r]
    /\ UNCHANGED chainOthers

ChainNext == ChainCall

SpecChain == ChainInit /\ [][ChainNext]_vars

\* ------------------------------------------------------------------------
\* Claims on resolve_chain
\* ------------------------------------------------------------------------

ChainRowOf(x) == chainq.hist[x]

ChainFinished(x, kind) ==
    /\ ChainRowOf(x).present /\ ChainRowOf(x).kind = kind
    /\ ChainRowOf(x).status = "FINISHED"

\* C10: the chain starts with the latest FINISHED full backup completed at
\* or before the target and continues with exactly the FINISHED
\* incrementals of the table completed strictly after that full backup and
\* at or before the target, in ascending completion time.
C10_ChainFullThenLaterIncrementals ==
    (chainq.pc = "returned" /\ ~chainq.out.raised) =>
        LET c == chainq.out.chain
            rest == {c[i] : i \in 2..Len(c)}
        IN /\ Len(c) >= 1
           /\ ChainFinished(c[1], "full")
           /\ ChainRowOf(c[1]).ts <= chainq.target
           /\ \A g \in ChainSnapshots :
                (ChainFinished(g, "full") /\ ChainRowOf(g).ts <= chainq.target)
                    => ChainRowOf(g).ts <= ChainRowOf(c[1]).ts
           /\ rest = {x \in ChainSnapshots :
                        /\ ChainFinished(x, "incremental")
                        /\ ChainRowOf(x).covers
                        /\ ChainRowOf(x).ts > ChainRowOf(c[1]).ts
                        /\ ChainRowOf(x).ts <= chainq.target}
           /\ Cardinality(rest) = Len(c) - 1
           /\ \A i, j \in 2..Len(c) :
                i < j => ChainRowOf(c[i]).ts <= ChainRowOf(c[j]).ts

\* C10 witness: one incremental before the chosen full backup, one after
\* it; the chain holds the full backup and the later incremental only.
C10_Witness ==
    /\ chainq.pc = "returned" /\ ~chainq.out.raised
    /\ Len(chainq.out.chain) = 2
    /\ \E x \in ChainSnapshots :
         /\ ChainFinished(x, "incremental") /\ ChainRowOf(x).covers
         /\ ChainRowOf(x).ts < ChainRowOf(chainq.out.chain[1]).ts
         /\ x # chainq.out.chain[2]

\* ------------------------------------------------------------------------
\* The status monitors (executor.py poll_backup_status, restore.py
\* poll_restore_status, backup.py poll_backup_until_done)
\* ------------------------------------------------------------------------

\* Queries the model lets the unbudgeted loop of poll_backup_until_done make.
MaxLoopQueries == 3

MonitorFns == {"poll_backup_status", "poll_restore_status",
               "poll_backup_until_done"}
BudgetedFns == {"poll_backup_status", "poll_restore_status"}

\* The label the monitored job was submitted under.
MonLabel == "L1"

\* Answers of the status query of each monitor.  SHOW RESTORE WHERE label =
\* ... and the bare SHOW BACKUP of poll_backup_until_done are read for their
\* state only: their rows carry no name the code looks at.
MonResponses(fn) ==
    IF fn = "poll_backup_status" THEN EngineResponses
    ELSE {r \in EngineResponses : r.name = ""}

\* for _ in range(max_polls): another iteration is left.
\* Variant whose loop runs once more than max_polls.
MonMutOneMorePoll(queries, max_polls) == queries <= max_polls

MonBudgetLeft(queries, max_polls) == queries < max_polls

\* One iteration of the loop of poll_restore_status after its query; no
\* row is reported as UNKNOWN at once.
RestoreIteration(resp) ==
    IF resp.kind = "exception" THEN "ERROR"
    ELSE IF resp.kind = "empty" THEN "UNKNOWN"
    ELSE IF resp.state \in {"FINISHED", "FAILED", "CANCELLED", "UNKNOWN"}
         THEN resp.state
         ELSE "none"

\* One iteration of the loop of poll_backup_until_done; the exception of
\* db.query is not caught and leaves the function ("RAISED").
UntilDoneIteration(resp) ==
    IF resp.kind = "exception" THEN "RAISED"
    ELSE IF resp.kind = "empty" THEN "none"
    ELSE IF resp.state \in {"FINISHED", "FAILED"} THEN resp.state
         ELSE "none"

\* Variant of the iteration below that polls on after a query that raised.
MonMutRetriesOnException(fn, first_poll, label, resp) ==
    IF resp.kind = "exception" THEN [ret |-> "none", first_poll |-> first_poll]
    ELSE IF fn = "poll_backup_status"
    THEN PollIteration(first_poll, label, resp)
    ELSE [ret |-> RestoreIteration(resp), first_poll |-> first_poll]

\* One iteration of a budgeted monitor: [ret, first_poll].  mon.log holds
\* the answers received and mon.outs what each iteration made of its answer.
MonIterate(fn, first_poll, label, resp) ==
    IF fn = "poll_backup_status" THEN PollIteration(first_poll, label, resp)
    ELSE [ret |-> RestoreIteration(resp), first_poll |-> first_poll]

MonInit ==
    /\ \/ \E fn \in BudgetedFns, mp \in 0..MaxPollArg :
            mon = [fn |-> fn, pc |-> "polling", label |-> MonLabel,
                   max_polls |-> mp, first_poll |-> TRUE, log |-> <<>>,
                   outs |-> <<>>, result |-> "none"]
       \/ mon = [fn |-> "poll_backup_until_done", pc |-> "polling",
                 log |-> <<>>, outs |-> <<>>, result |-> "none"]
    /\ OldIdleVars
    /\ ExIdleVars /\ PlanIdleVars /\ LabIdleVars /\ RestIdleVars

\* One loop iteration of poll_backup_status / poll_restore_status.
MonQuery ==
    /\ mon.pc = "polling"
    /\ mon.fn \in BudgetedFns
    /\ MonBudgetLeft(Len(mon.log), mon.max_polls)
    /\ \E resp \in MonResponses(mon.fn) :
        LET r == MonIterate(mon.fn, mon.first_poll, mon.label, resp)
        IN mon' = [mon EXCEPT
                     !.log = Append(mon.log, resp),
                     !.outs = Append(mon.outs, r.ret),
                     !.first_poll = r.first_poll,
                     !.pc = IF r.ret = "none" THEN "polling" ELSE "returned",
                     !.result = r.ret]
    /\ UNCHANGED monOthers

\* The for loop is exhausted.
MonTimeout ==
    /\ mon.pc = "polling"
    /\ mon.fn \in BudgetedFns
    /\ ~MonBudgetLeft(Len(mon.log), mon.max_polls)
    /\ mon' = [mon EXCEPT !.pc = "returned", !.result = "TIMEOUT"]
    /\ UNCHANGED monOthers

\* One iteration of the while True loop of poll_backup_until_done.
MonUntilDoneQuery ==
    /\ mon.pc = "polling"
    /\ mon.fn = "poll_backup_until_done"
    /\ Len(mon.log) < MaxLoopQueries
    /\ \E resp \in MonResponses(mon.fn) :
        LET ret == UntilDoneIteration(resp)
        IN mon' = [mon EXCEPT
                     !.log = Append(mon.log, resp),
                     !.outs = Append(mon.outs, ret),
                     !.pc = IF ret = "none" THEN "polling" ELSE "returned",
                     !.result = ret]
    /\ UNCHANGED monOthers

MonNext == MonQuery \/ MonTimeout \/ MonUntilDoneQuery

SpecMonitor == MonInit /\ [][MonNext]_vars

\* The scheduler runs the single thread of the monitor: a step that is
\* possible is eventually taken.
SpecMonitorLive == SpecMonitor /\ WF_vars(MonNext)

\* ------------------------------------------------------------------------
\* Claims on the status monitors
\* ------------------------------------------------------------------------

\* Answer i is a row of the tracked job: poll_backup_status compares the
\* snapshot name, the query of poll_restore_status selects by label.
MonRowOfTracked(i) ==
    /\ mon.log[i].kind = "row"
    /\ mon.fn = "poll_backup_status" => mon.log[i].name = mon.label

MonReturnedAt(i, state) ==
    mon.pc = "returned" /\ mon.result = state /\ Len(mon.log) = i

\* C13 as stated: in poll_backup_status and poll_restore_status, a status
\* query that reports the tracked label with state FINISHED, CANCELLED or
\* FAILED makes the monitor return that state on that poll, with no further
\* status query.
C13_TerminalStateReturned ==
    mon.fn \in BudgetedFns =>
        \A i \in 1..Len(mon.log) :
            (/\ MonRowOfTracked(i)
             /\ mon.log[i].state \in {"FINISHED", "CANCELLED", "FAILED"})
                => MonReturnedAt(i, mon.log[i].state)

\* What the code does: FINISHED and CANCELLED end both monitors, FAILED
\* ends poll_restore_status only.
MonTerminalReturnedAsCoded ==
    mon.fn \in BudgetedFns =>
        \A i \in 1..Len(mon.log) :
            (/\ MonRowOfTracked(i)
             /\ \/ mon.log[i].state \in {"FINISHED", "CANCELLED"}
                \/ /\ mon.log[i].state = "FAILED"
                   /\ mon.fn = "poll_restore_status")
                => MonReturnedAt(i, mon.log[i].state)

\* C14 as stated: in each of the three monitors an empty result set does
\* not end the monitor with an error or a terminal state; the monitor
\* polls on, and stops on that answer only when no poll is left (TIMEOUT).
C14_EmptyResultRetries ==
    \A i \in 1..Len(mon.log) :
        mon.log[i].kind = "empty" =>
            \/ Len(mon.log) > i
            \/ mon.pc = "polling"
            \/ /\ mon.fn \in BudgetedFns
               /\ i = mon.max_polls
               /\ MonReturnedAt(i, "TIMEOUT")

\* What the code does: poll_backup_status and poll_backup_until_done retry
\* on an empty result set, poll_restore_status returns UNKNOWN on it.
MonEmptyResultAsCoded ==
    \A i \in 1..Len(mon.log) :
        mon.log[i].kind = "empty" =>
            IF mon.fn = "poll_restore_status"
            THEN MonReturnedAt(i, "UNKNOWN")
            ELSE \/ Len(mon.log) > i
                 \/ mon.pc = "polling"
                 \/ /\ mon.fn = "poll_backup_status"
                    /\ i = mon.max_polls
                    /\ MonReturnedAt(i, "TIMEOUT")

\* C15: poll_backup_status and poll_restore_status make at most max_polls
\* status queries, a returned call has the result TIMEOUT exactly when
\* max_polls queries were made and none of them produced an outcome
\* (terminal state, LOST, UNKNOWN or ERROR), and every call returns.
C15_BudgetedMonitorsTerminate ==
    /\ [](mon.fn \in BudgetedFns =>
            /\ Len(mon.log) <= mon.max_polls
            /\ mon.pc = "returned" =>
                 (mon.result = "TIMEOUT" <=>
                    /\ Len(mon.log) = mon.max_polls
                    /\ \A i \in 1..Len(mon.outs) : mon.outs[i] = "none"))
    /\ (mon.fn \in BudgetedFns => <>(mon.pc = "returned"))

\* C15 witness: a call with a budget of two or more polls spent all of it
\* on answers without an outcome and returned TIMEOUT.
C15_Witness ==
    /\ mon.fn \in BudgetedFns
    /\ mon.max_polls >= 2
    /\ Len(mon.log) = mon.max_polls
    /\ mon.pc = "returned" /\ mon.result = "TIMEOUT"

\* ------------------------------------------------------------------------
\* The executors (executor.py execute_backup, restore.py execute_restore)
\* ------------------------------------------------------------------------

\* Python's None; also the value of a result field before the call returns.
None == <<>>

ExecFns == {"execute_backup", "execute_restore"}

\* str(e) of the exception db.execute raises on submission.
SubmitErrors == {"E1", "E2"}

\* The monitor each executor calls.
MonitorOf(fn) ==
    IF fn = "execute_backup" THEN "poll_backup_status"
    ELSE "poll_restore_status"

\* The result returned when the submission raised e.
SubmitFailure(fn, e) ==
    [success |-> FALSE,
     final_status |-> None,
     error_message |->
        IF fn = "execute_backup"
        THEN <<"Failed to submit backup command", e>>
        ELSE <<"Failed to submit restore command", e>>]

\* _build_error_message / "Restore failed with state: ...".
ErrorMessageFor(fn, final_status) ==
    IF fn = "execute_backup"
    THEN <<"Backup", final_status.label, final_status.state>>
    ELSE <<"Restore failed with state", final_status.state>>

\* The result returned after the monitor returned final_status.
\* Variant that also counts a CANCELLED job as a success.
ExMutCancelledIsSuccess(fn, final_status) ==
    LET success == final_status.state \in {"FINISHED", "CANCELLED"}
    IN [success |-> success,
        final_status |-> final_status,
        error_message |->
            IF success THEN None ELSE ErrorMessageFor(fn, final_status)]

\* As written: success = final_status["state"] == "FINISHED".
ExResult(fn, final_status) ==
    LET success == final_status.state = "FINISHED"
    IN [success |-> success,
        final_status |-> final_status,
        error_message |->
            IF success THEN None ELSE ErrorMessageFor(fn, final_status)]

\* The result of the outer except clause for an exception e.
UnexpectedFailure(fn, label, e) ==
    IF fn = "execute_backup"
    THEN [success |-> FALSE,
          final_status |-> [state |-> "ERROR", label |-> label],
          error_message |-> <<"Unexpected error during backup execution", e>>]
    ELSE [success |-> FALSE, final_status |-> None, error_message |-> <<e>>]

ExInit ==
    /\ \E fn \in ExecFns, mp \in 0..MaxPollArg :
        ex = [fn |-> fn, pc |-> "submit", label |-> MonLabel,
              max_polls |-> mp, first_poll |-> TRUE, queries |-> 0,
              submit_error |-> None, final_status |-> None,
              logged |-> FALSE, completed |-> FALSE,
              complete_called |-> FALSE, result |-> None]
    /\ OldIdleVars
    /\ MonIdleVars /\ PlanIdleVars /\ LabIdleVars /\ RestIdleVars

\* db.execute(command): it raises and the executor returns at once, or the
\* statement is accepted and the monitor is called.
ExSubmit ==
    /\ ex.pc = "submit"
    /\ \/ \E e \in SubmitErrors :
            ex' = [ex EXCEPT !.pc = "returned", !.submit_error = <<e>>,
                             !.result = SubmitFailure(ex.fn, e)]
       \/ ex' = [ex EXCEPT !.pc = "poll"]
    /\ UNCHANGED exOthers

\* One iteration of the monitor's loop.
ExPollQuery ==
    /\ ex.pc = "poll"
    /\ MonBudgetLeft(ex.queries, ex.max_polls)
    /\ \E resp \in MonResponses(MonitorOf(ex.fn)) :
        LET r == MonIterate(MonitorOf(ex.fn), ex.first_poll, ex.label, resp)
        IN ex' = [ex EXCEPT
                    !.queries = ex.queries + 1,
                    !.first_poll = r.first_poll,
                    !.pc = IF r.ret = "none" THEN "poll" ELSE "log",
                    !.final_status =
                        IF r.ret = "none" THEN None
                        ELSE [state |-> r.ret, label |-> ex.label]]
    /\ UNCHANGED exOthers

\* The monitor's loop is exhausted.
ExPollTimeout ==
    /\ ex.pc = "poll"
    /\ ~MonBudgetLeft(ex.queries, ex.max_polls)
    /\ ex' = [ex EXCEPT !.pc = "log",
                        !.final_status =
                            [state |-> "TIMEOUT", label |-> ex.label]]
    /\ UNCHANGED exOthers

\* An exception that reaches the outer except clause.
ExUnexpected ==
    /\ ex.pc = "poll"
    /\ \E e \in SubmitErrors :
        ex' = [ex EXCEPT !.pc = "returned",
                         !.result = UnexpectedFailure(ex.fn, ex.label, e)]
    /\ UNCHANGED exOthers

\* history.log_backup / history.log_restore; an exception is swallowed.
ExLog ==
    /\ ex.pc = "log"
    /\ \E ok \in BOOLEAN :
        ex' = [ex EXCEPT !.pc = "complete", !.logged = ok]
    /\ UNCHANGED exOthers

\* The call of complete_job_slot (ok: it did not raise) and the return
\* after it.
\* Variant without the inner try: an exception of complete_job_slot reaches
\* the outer except clause.
ExMutCompleteErrorEscapes(e, ok) ==
    [e EXCEPT !.pc = "returned", !.completed = ok, !.complete_called = TRUE,
              !.result = IF ok THEN ExResult(e.fn, e.final_status)
                         ELSE UnexpectedFailure(e.fn, e.label, "E1")]

ExCompleteAndReturn(e, ok) ==
    [e EXCEPT !.pc = "returned", !.completed = ok, !.complete_called = TRUE,
              !.result = ExResult(e.fn, e.final_status)]

\* complete_job_slot, an exception is swallowed; then the result is built
\* and returned.
ExComplete ==
    /\ ex.pc = "complete"
    /\ \E ok \in BOOLEAN : ex' = ExCompleteAndReturn(ex, ok)
    /\ UNCHANGED exOthers

ExNext ==
    \/ ExSubmit
    \/ ExPollQuery
    \/ ExPollTimeout
    \/ ExUnexpected
    \/ ExLog
    \/ ExComplete

SpecExec == ExInit /\ [][ExNext]_vars

\* ------------------------------------------------------------------------
\* Claims on the executors
\* ------------------------------------------------------------------------

\* C11: in every result returned by execute_backup and execute_restore,
\* success is true exactly when final_status holds the state FINISHED, and
\* error_message is None exactly when success is true.
C11_SuccessIffFinished ==
    ex.pc = "returned" =>
        /\ ex.result.success <=>
              (/\ ex.result.final_status # None
               /\ ex.result.final_status.state = "FINISHED")
        /\ (ex.result.error_message = None) <=> ex.result.success

\* C11 witness: the monitor saw the job FINISHED and a successful result was
\* returned.
C11_Witness ==
    /\ ex.pc = "returned"
    /\ ex.queries >= 1
    /\ ex.result.success
    /\ ex.result.final_status.state = "FINISHED"

\* C12 as stated: when the submission raised, the returned job state is
\* FAILED, the result carries the error of the submission, and no status
\* query was issued.
C12_SubmitErrorGoesToFailed ==
    (ex.pc = "returned" /\ ex.submit_error # None) =>
        /\ ex.queries = 0
        /\ ex.result.error_message[Len(ex.result.error_message)]
              = ex.submit_error[1]
        /\ ex.result.final_status # None
        /\ ex.result.final_status.state = "FAILED"

\* What the code does on a failed submission: no status query, the error
\* in error_message, and no final state at all (final_status is None).
ExSubmitErrorReturnsNoState ==
    (ex.pc = "returned" /\ ex.submit_error # None) =>
        /\ ex.queries = 0
        /\ ~ex.logged /\ ~ex.completed
        /\ ex.result = SubmitFailure(ex.fn, ex.submit_error[1])
        /\ ex.result.final_status = None

\* ------------------------------------------------------------------------
\* The backup planner (backup.py decide_backup_plan)
\* ------------------------------------------------------------------------

\* Timestamps are 1..MaxPlanTime; a history holds up to MaxPlanRows distinct
\* rows and a call names up to MaxPlanTables tables.
MaxPlanTime == 2
MaxPlanRows == 2
MaxPlanTables == 2

\* A nullable column: None (SQL NULL) or <<t>>.
PlanTimes == {None} \cup {<<t>> : t \in 1..MaxPlanTime}

\* ops.backup_history rows as backup.py writes them: RUNNING on insert,
\* then FINISHED with the timestamp SHOW BACKUP reported, or FAILED.
PlanStatuses == {"RUNNING", "FINISHED", "FAILED"}
PlanRows == [status : PlanStatuses, backup_timestamp : PlanTimes]
PlanHistories == {h \in SUBSET PlanRows : Cardinality(h) <= MaxPlanRows}

PlanTableNames == {"db1.t1", "db2.t2"}
PlanTableLists ==
    UNION {[1..n -> PlanTableNames] : n \in 0..MaxPlanTables}

\* information_schema.partitions: per table the UPDATE_TIME of its
\* partition p1, None when the table has no partition row with a time.
PlanPartitionInfos == [PlanTableNames -> PlanTimes]

\* MAX(backup_timestamp) over the FINISHED rows; NULLs are ignored and the
\* result is NULL when nothing is left.
MaxFinishedTimestamp(hist) ==
    LET ts == {r.backup_timestamp[1] :
                 r \in {x \in hist : /\ x.status = "FINISHED"
                                     /\ x.backup_timestamp # None}}
    IN IF ts = {} THEN None
       ELSE <<CHOOSE t \in ts : \A u \in ts : u <= t>>

\* DATE_FORMAT(x, '%Y-%m-%d %H:%i:%s'): NULL for NULL, else the text of the
\* time to the second; the model's time unit is the second, so the text
\* orders and compares as the time does.
DateFormat(x) == IF x = None THEN None ELSE <<x[1]>>

\* get_last_successful_backup: rows[0][0] of the aggregate query, None when
\* it is falsy.
GetLastSuccessfulBackup(hist) ==
    LET ts == DateFormat(MaxFinishedTimestamp(hist))
    IN IF ts = None THEN None ELSE ts

\* get_changed_partitions_since: names of partitions with UPDATE_TIME >
\* since_ts (a NULL time compares as not greater).
GetChangedPartitionsSince(parts, table, since_ts) ==
    IF parts[table] # None /\ parts[table][1] > since_ts[1]
    THEN <<"p1">>
    ELSE <<>>

TablesOf(tables) == {tables[i] : i \in 1..Len(tables)}

\* decide_backup_plan.
\* Variant that keeps the table list when nothing has changed.
DecideMutKeepsTables(hist, tables, parts) ==
    LET last_ts == GetLastSuccessfulBackup(hist)
    IN IF last_ts = None
       THEN [backup_type |-> "full", tables |-> tables,
             partitions_by_table |-> <<>>]
       ELSE [backup_type |-> "incremental", tables |-> tables,
             partitions_by_table |->
                [t \in TablesOf(tables) |->
                    GetChangedPartitionsSince(parts, t, last_ts)]]

\* As written.
DecideBackupPlan(hist, tables, parts) ==
    LET last_ts == GetLastSuccessfulBackup(hist)
        partitions_by_table ==
            [t \in TablesOf(tables) |->
                GetChangedPartitionsSince(parts, t, last_ts)]
        has_any_changes ==
            \E t \in TablesOf(tables) : partitions_by_table[t] # <<>>
    IN IF last_ts = None
       THEN [backup_type |-> "full", tables |-> tables,
             partitions_by_table |-> <<>>]
       ELSE IF ~has_any_changes
            THEN [backup_type |-> "incremental", tables |-> <<>>,
                  partitions_by_table |-> <<>>]
            ELSE [backup_type |-> "incremental", tables |-> tables,
                  partitions_by_table |-> partitions_by_table]

PlanInit ==
    /\ \E h \in PlanHistories, tl \in PlanTableLists,
          pi \in PlanPartitionInfos :
        planq = [pc |-> "call", hist |-> h, tables |-> tl, parts |-> pi,
                 plan |-> None]
    /\ OldIdleVars
    /\ MonIdleVars /\ ExIdleVars /\ LabIdleVars /\ RestIdleVars

PlanCall ==
    /\ planq.pc = "call"
    /\ planq' = [planq EXCEPT
                   !.pc = "returned",
                   !.plan = DecideBackupPlan(planq.hist, planq.tables,
                                             planq.parts)]
    /\ UNCHANGED planOthers

PlanNext == PlanCall

SpecPlan == PlanInit /\ [][PlanNext]_vars

\* ------------------------------------------------------------------------
\* Claims on the backup planner
\* ------------------------------------------------------------------------

PlanHasFinished == \E r \in planq.hist : r.status = "FINISHED"

\* The baseline: the latest backup_timestamp of a FINISHED row, None when
\* no FINISHED row has one.
PlanBaseline == MaxFinishedTimestamp(planq.hist)

\* A table of the call has a partition changed since the baseline.
PlanSomeTableChanged ==
    \E t \in TablesOf(planq.tables) :
        /\ planq.parts[t] # None
        /\ planq.parts[t][1] > PlanBaseline[1]

\* C16 as stated: the returned plan is of type full exactly when the
\* history holds no row with status FINISHED, and incremental otherwise.
C16_FullIffNoFinished ==
    planq.pc = "returned" =>
        /\ planq.plan.backup_type = "full" <=> ~PlanHasFinished
        /\ planq.plan.backup_type \in {"full", "incremental"}

\* What the code does: full exactly when no FINISHED row has a
\* backup_timestamp.
PlanFullIffNoFinishedTimestamp ==
    planq.pc = "returned" =>
        /\ planq.plan.backup_type = "full" <=> PlanBaseline = None
        /\ planq.plan.backup_type \in {"full", "incremental"}

\* C17: with a FINISHED baseline and no table with a partition changed
\* since it, the plan is (incremental, [], {}); and an incremental plan
\* made when no table has a changed partition has an empty table list.
C17_NoChangeGivesEmptyIncremental ==
    planq.pc = "returned" =>
        /\ (PlanBaseline # None /\ ~PlanSomeTableChanged) =>
              planq.plan = [backup_type |-> "incremental", tables |-> <<>>,
                            partitions_by_table |-> <<>>]
        /\ (planq.plan.backup_type = "incremental" /\ ~PlanSomeTableChanged)
              => planq.plan.tables = <<>>

\* C17 witness: a baseline, tables named, a partition updated no later than
\* the baseline, and the empty incremental plan returned.
C17_Witness ==
    /\ planq.pc = "returned"
    /\ PlanBaseline # None
    /\ planq.tables # <<>>
    /\ \E t \in TablesOf(planq.tables) : planq.parts[t] # None
    /\ ~PlanSomeTableChanged
    /\ planq.plan.backup_type = "incremental"
    /\ planq.plan.tables = <<>>

\* ------------------------------------------------------------------------
\* The label generator (labels.py generate_label, resolve_label)
\* ------------------------------------------------------------------------

\* Largest retry suffix and largest one-digit version among the labels the
\* model puts into existing_labels and into the history.
MaxRetry == 3
MaxVersion == 2

\* Strings are sequences of characters, so that replace, in, LIKE, the
\* regular expression and int() act on them as they do on strings.
DigitChars == <<"0", "1", "2", "3", "4", "5", "6", "7", "8", "9">>
IsDigit(c) == \E i \in 1..Len(DigitChars) : DigitChars[i] = c
DigitVal(c) == (CHOOSE i \in 1..Len(DigitChars) : DigitChars[i] = c) - 1

\* str(n) of a natural number, as the f-strings format it.
RECURSIVE Str(_)
Str(n) ==
    IF n < Len(DigitChars) THEN <<DigitChars[n + 1]>>
    ELSE Str(n \div Len(DigitChars)) \o <<DigitChars[(n % Len(DigitChars)) + 1]>>

\* int(s) of a non-empty string of digits.
RECURSIVE ParseInt(_)
ParseInt(ds) ==
    IF ds = <<>> THEN 0
    ELSE ParseInt(SubSeq(ds, 1, Len(ds) - 1)) * Len(DigitChars)
            + DigitVal(ds[Len(ds)])

\* pat in s
Contains(s, pat) ==
    \E i \in 1..(Len(s) - Len(pat) + 1) :
        SubSeq(s, i, i + Len(pat) - 1) = pat

\* s.replace(pat, rep): every occurrence, left to right.
RECURSIVE ReplaceAll(_, _, _)
ReplaceAll(s, pat, rep) ==
    IF Len(s) < Len(pat) THEN s
    ELSE IF SubSeq(s, 1, Len(pat)) = pat
         THEN rep \o ReplaceAll(SubSeq(s, Len(pat) + 1, Len(s)), pat, rep)
         ELSE <<Head(s)>> \o ReplaceAll(Tail(s), pat, rep)

\* generate_label's inputs: database, dates (with the compact form the
\* label is to carry), backup types.
LabDatabase == <<"d", "b">>
LabDates ==
    {[iso |-> <<"2", "0", "2", "5", "-", "1", "0", "-", "0", "5">>,
      ymd |-> <<"2", "0", "2", "5", "1", "0", "0", "5">>]}
LabTypes == {<<"i", "n", "c">>, <<"w", "e", "e", "k", "l", "y">>}

LabBase(database, ymd, backup_type) ==
    database \o <<"_">> \o ymd \o <<"_">> \o backup_type

WithRetry(base, n) == base \o <<"_", "r">> \o Str(n)

\* Labels existing_labels is drawn from: the bases of the day, their retry
\* labels and near misses of them.
LabExistingPool ==
    LET d == CHOOSE x \in LabDates : TRUE
        inc == LabBase(LabDatabase, d.ymd, <<"i", "n", "c">>)
    IN {inc, inc \o <<"_", "r">>, WithRetry(inc, 0),
        LabBase(LabDatabase, d.ymd, <<"w", "e", "e", "k", "l", "y">>)}
       \cup {WithRetry(inc, n) : n \in 1..MaxRetry}

\* The while loop of generate_label.
RECURSIVE GenerateLoop(_, _, _, _)
GenerateLoop(base_label, existing_labels, retry_count, label) ==
    IF label \in existing_labels
    THEN GenerateLoop(base_label, existing_labels, retry_count + 1,
                      WithRetry(base_label, retry_count + 1))
    ELSE label

\* generate_label.
\* Variant that retries once only.
GenerateMutSingleRetry(database, date, backup_type, existing_labels) ==
    LET base_label == LabBase(database, ReplaceAll(date, <<"-">>, <<>>),
                              backup_type)
    IN IF base_label \in existing_labels THEN WithRetry(base_label, 1)
       ELSE base_label

\* As written (existing_labels = None is replaced by the empty list).
GenerateLabel(database, date, backup_type, existing_labels) ==
    LET date_formatted == ReplaceAll(date, <<"-">>, <<>>)
        base_label == LabBase(database, date_formatted, backup_type)
    IN GenerateLoop(base_label, existing_labels, 0, base_label)

\* resolve_label's inputs: the provided name (None or empty, without the
\* placeholder, with it) and the prefix a versioned name stands for.
Placeholder == <<"-", "v", "#", "r">>
LabNames ==
    {[text |-> <<>>, prefix |-> <<>>],
     [text |-> <<"L", "2">>, prefix |-> <<>>],
     [text |-> <<"b", "-", "v", "#", "r">>, prefix |-> <<"b", "-", "v">>],
     [text |-> <<"a", "_", "b", "-", "v", "#", "r">>,
      prefix |-> <<"a", "_", "b", "-", "v">>]}

\* Labels of ops.backup_history rows: versions of the two prefixes, a
\* two-digit version, a version with a leading zero, and near misses.
LabHistoryPool ==
    LET b == <<"b", "-", "v">>
        ab == <<"a", "_", "b", "-", "v">>
    IN {b \o Str(n) : n \in 1..MaxVersion}
       \cup {b \o <<"1", "0">>, b \o <<"0", "7">>, b, b \o <<"5", "x">>,
             <<"x">> \o b \o <<"9">>,
             ab \o <<"1">>, <<"a", "x", "b", "-", "v", "8">>}

\* label LIKE '{prefix}%': '_' in the pattern matches any one character.
LikeStartsWith(label, prefix) ==
    /\ Len(label) >= Len(prefix)
    /\ \A i \in 1..Len(prefix) : prefix[i] = "_" \/ prefix[i] = label[i]

\* re.compile(re.escape(prefix) + r"(\d+)$").match(label): the digits
\* matched, None when there is no match.
SuffixMatch(label, prefix) ==
    LET rest == SubSeq(label, Len(prefix) + 1, Len(label))
    IN IF /\ Len(label) > Len(prefix)
          /\ SubSeq(label, 1, Len(prefix)) = prefix
          /\ \A i \in 1..Len(rest) : IsDigit(rest[i])
       THEN rest ELSE None

MaxOf(set) ==
    IF set = {} THEN 0 ELSE CHOOSE v \in set : \A u \in set : u <= v

\* resolve_label.
\* Variant that numbers by the count of matching rows.
ResolveMutCountsRows(history, lookup_fails, provided_name) ==
    IF provided_name = <<>> THEN None
    ELSE IF ~Contains(provided_name, Placeholder) THEN provided_name
    ELSE LET prefix == ReplaceAll(provided_name, Placeholder, <<"-", "v">>)
             rows == IF lookup_fails THEN {}
                     ELSE {l \in history : LikeStartsWith(l, prefix)}
             matched == {l \in rows : SuffixMatch(l, prefix) # None}
         IN prefix \o Str(Cardinality(matched) + 1)

\* As written: rows of the LIKE query (none when the query raises), the
\* largest int of the matched suffixes, plus one.
ResolveLabel(history, lookup_fails, provided_name) ==
    IF provided_name = <<>> THEN None
    ELSE IF ~Contains(provided_name, Placeholder) THEN provided_name
    ELSE LET prefix == ReplaceAll(provided_name, Placeholder, <<"-", "v">>)
             rows == IF lookup_fails THEN {}
                     ELSE {l \in history : LikeStartsWith(l, prefix)}
             versions == {ParseInt(SuffixMatch(l, prefix)) :
                             l \in {x \in rows : SuffixMatch(x, prefix) # None}}
             max_version == MaxOf(versions)
         IN prefix \o Str(max_version + 1)

LabInit ==
    /\ \/ \E d \in LabDates, t \in LabTypes, e \in SUBSET LabExistingPool :
            labq = [fn |-> "generate_label", pc |-> "call",
                    database |-> LabDatabase, date |-> d,
                    backup_type |-> t, existing_labels |-> e,
                    result |-> None]
       \/ \E n \in LabNames, h \in SUBSET LabHistoryPool, f \in BOOLEAN :
            labq = [fn |-> "resolve_label", pc |-> "call",
                    provided_name |-> n, history |-> h, lookup_fails |-> f,
                    result |-> None]
    /\ OldIdleVars
    /\ MonIdleVars /\ ExIdleVars /\ PlanIdleVars /\ RestIdleVars

LabGenerate ==
    /\ labq.pc = "call"
    /\ labq.fn = "generate_label"
    /\ labq' = [labq EXCEPT
                  !.pc = "returned",
                  !.result = GenerateLabel(labq.database, labq.date.iso,
                                           labq.backup_type,
                                           labq.existing_labels)]
    /\ UNCHANGED labOthers

LabResolve ==
    /\ labq.pc = "call"
    /\ labq.fn = "resolve_label"
    /\ labq' = [labq EXCEPT
                  !.pc = "returned",
                  !.result = ResolveLabel(labq.history, labq.lookup_fails,
                                          labq.provided_name.text)]
    /\ UNCHANGED labOthers

LabNext == LabGenerate \/ LabResolve

SpecLabels == LabInit /\ [][LabNext]_vars

\* ------------------------------------------------------------------------
\* Claims on the label generator
\* ------------------------------------------------------------------------

\* C19: generate_label returns the base label {database}_{YYYYMMDD}_{type}
\* when it is not in existing, otherwise base_r{n} for the smallest n >= 1
\* with base_r{n} not in existing; the result is never in existing.  The
\* function keeps no state, so this fixes the result by the arguments.
C19_GenerateSmallestFreeSuffix ==
    (labq.fn = "generate_label" /\ labq.pc = "returned") =>
        LET base == LabBase(labq.database, labq.date.ymd, labq.backup_type)
            existing == labq.existing_labels
        IN /\ labq.result \notin existing
           /\ base \notin existing => labq.result = base
           /\ base \in existing =>
                \E n \in 1..Cardinality(existing) :
                    /\ labq.result = WithRetry(base, n)
                    /\ \A k \in 1..(n - 1) : WithRetry(base, k) \in existing

\* C19 witness: the base and its first two retry labels are taken and the
\* third retry label was returned.
C19_Witness ==
    /\ labq.fn = "generate_label" /\ labq.pc = "returned"
    /\ LET base == LabBase(labq.database, labq.date.ymd, labq.backup_type)
       IN /\ {base, WithRetry(base, 1), WithRetry(base, 2)}
                \subseteq labq.existing_labels
          /\ labq.result = WithRetry(base, 3)

\* The existing labels made of the prefix followed by digits only, and the
\* numbers those digits spell.
LabVersionsOf(history, prefix) ==
    {ParseInt(SubSeq(l, Len(prefix) + 1, Len(l))) :
        l \in {x \in history :
                 /\ Len(x) > Len(prefix)
                 /\ SubSeq(x, 1, Len(prefix)) = prefix
                 /\ \A i \in (Len(prefix) + 1)..Len(x) : IsDigit(x[i])}}

\* C20: for a name with the placeholder, resolve_label returns the prefix
\* followed by m + 1, m the largest numeric suffix among the existing
\* labels of the form prefix-then-digits and 0 when there is none; when the
\* history lookup fails the result is the prefix followed by 1, and the
\* call returns in both cases.
C20_ResolveNextVersion ==
    (/\ labq.fn = "resolve_label" /\ labq.pc = "returned"
     /\ Contains(labq.provided_name.text, Placeholder)) =>
        LET prefix == labq.provided_name.prefix
            m == IF labq.lookup_fails THEN 0
                 ELSE MaxOf(LabVersionsOf(labq.history, prefix))
        IN labq.result = prefix \o Str(m + 1)

\* C20 witness: versions 1 and 10 exist beside near misses and version 11
\* was returned.
C20_Witness ==
    /\ labq.fn = "resolve_label" /\ labq.pc = "returned"
    /\ ~labq.lookup_fails
    /\ labq.provided_name.prefix = <<"b", "-", "v">>
    /\ {<<"b", "-", "v", "1">>, <<"b", "-", "v", "1", "0">>,
        <<"b", "-", "v", "5", "x">>} \subseteq labq.history
    /\ labq.result = <<"b", "-", "v", "1", "1">>

\* ------------------------------------------------------------------------
\* The BACKUP statement builders (backup.py issue_backup_commands,
\* planner.py build_full_backup_command, build_incremental_backup_command)
\* and the submission of their statements
\* ------------------------------------------------------------------------

\* Longest partition list handed to build_incremental_backup_command.
MaxBuildPartitions == 2

\* The tool's own control table.
ControlTable == "ops.backup_history"

\* A statement is modelled by its parts: the database, the snapshot label
\* (None when the text has no SNAPSHOT), the repository, whether it has an
\* ON (...) list, and the objects of that list, each with its PARTITION
\* (...) clause if it has one.  The empty string is <<>>.
EmptyStatement == <<>>
OnObject(table, has_clause, partitions) ==
    [table |-> table, has_partition_clause |-> has_clause,
     partitions |-> partitions]
BackupStatement(database, snapshot, repository, has_on, on) ==
    [kind |-> "BACKUP", database |-> database, snapshot |-> snapshot,
     repository |-> repository, has_on |-> has_on, on |-> on]

\* Partition lists of a plan entry; NoEntry is a table missing from
\* partitions_by_table.
NoEntry == <<"no entry">>
BuildPartLists == {NoEntry, <<>>, <<"p1">>, <<"p1", "p2">>}
BuildPlans ==
    [backup_type : {"full", "incremental"}, tables : PlanTableLists,
     partitions_by_table : [PlanTableNames -> BuildPartLists]]

\* issue_backup_commands, incremental branch: the objects of the statement
\* of one table (partitions = plan.partitions_by_table.get(table) or []).
IncrementalObjects(table, entry) ==
    LET partitions == IF entry = NoEntry THEN <<>> ELSE entry
    IN IF partitions # <<>>
       THEN <<OnObject(table, TRUE, partitions),
              OnObject(ControlTable, FALSE, <<>>)>>
       ELSE <<OnObject(table, FALSE, <<>>),
              OnObject(ControlTable, FALSE, <<>>)>>

\* issue_backup_commands: the statements it executes, in order.
IssueBackupCommands(plan, repository) ==
    IF plan.backup_type = "full"
    THEN <<BackupStatement("ops", None, repository, TRUE,
              [i \in 1..Len(plan.tables) |->
                  OnObject(plan.tables[i], FALSE, <<>>)]
              \o <<OnObject(ControlTable, FALSE, <<>>)>>)>>
    ELSE [i \in 1..Len(plan.tables) |->
            BackupStatement("ops", None, repository, TRUE,
                IncrementalObjects(plan.tables[i],
                    plan.partitions_by_table[plan.tables[i]]))]

\* Subsequence of the elements that satisfy a membership test.
RECURSIVE KeepIn(_, _)
KeepIn(seq, set) ==
    IF seq = <<>> THEN <<>>
    ELSE IF Head(seq) \in set THEN <<Head(seq)>> \o KeepIn(Tail(seq), set)
    ELSE KeepIn(Tail(seq), set)

\* find_tables_by_group: rows of the group ordered by database and table.
BuildGroupEntries ==
    <<[database |-> "db1", table |-> "*"],
      [database |-> "db1", table |-> "t1"],
      [database |-> "db1", table |-> "t2"],
      [database |-> "db2", table |-> "t3"]>>
BuildGroups ==
    {KeepIn(BuildGroupEntries, g) :
        g \in SUBSET {BuildGroupEntries[i] : i \in 1..Len(BuildGroupEntries)}}

\* build_full_backup_command over the rows of find_tables_by_group.
BuildFullBackupCommand(tables, repository, label, database) ==
    LET db_entries ==
            KeepIn(tables, {t \in {tables[i] : i \in 1..Len(tables)} :
                              t.database = database})
    IN IF db_entries = <<>> THEN EmptyStatement
       ELSE IF \E i \in 1..Len(db_entries) : db_entries[i].table = "*"
       THEN BackupStatement(database, label, repository, FALSE, <<>>)
       ELSE BackupStatement(database, label, repository, TRUE,
                [i \in 1..Len(db_entries) |->
                    OnObject(db_entries[i].table, FALSE, <<>>)])

\* Partition rows handed to build_incremental_backup_command.
BuildPartitionRows ==
    {[database |-> "db1", table |-> "t1", partition_name |-> "p1"],
     [database |-> "db1", table |-> "t1", partition_name |-> "p2"],
     [database |-> "db1", table |-> "t2", partition_name |-> "p1"],
     [database |-> "db2", table |-> "t3", partition_name |-> "p1"]}
BuildPartitionLists ==
    UNION {[1..n -> BuildPartitionRows] : n \in 0..MaxBuildPartitions}

\* Keys of table_partitions in insertion order.
RECURSIVE TablesInOrder(_, _)
TablesInOrder(rows, seen) ==
    IF rows = <<>> THEN <<>>
    ELSE IF Head(rows).table \in seen THEN TablesInOrder(Tail(rows), seen)
    ELSE <<Head(rows).table>>
            \o TablesInOrder(Tail(rows), seen \cup {Head(rows).table})

\* table_partitions[table]: the partition names of the table, in order.
RECURSIVE PartitionsOfTable(_, _)
PartitionsOfTable(rows, table) ==
    IF rows = <<>> THEN <<>>
    ELSE IF Head(rows).table = table
         THEN <<Head(rows).partition_name>>
                 \o PartitionsOfTable(Tail(rows), table)
         ELSE PartitionsOfTable(Tail(rows), table)

\* build_incremental_backup_command.
BuildIncrementalBackupCommand(partitions, repository, label, database) ==
    LET db_partitions ==
            KeepIn(partitions,
                   {x \in {partitions[i] : i \in 1..Len(partitions)} :
                      x.database = database})
        keys == TablesInOrder(db_partitions, {})
    IN IF partitions = <<>> THEN EmptyStatement
       ELSE IF db_partitions = <<>> THEN EmptyStatement
       ELSE BackupStatement(database, label, repository, TRUE,
                [i \in 1..Len(keys) |->
                    OnObject(keys[i], TRUE,
                             PartitionsOfTable(db_partitions, keys[i]))])

BuildFns == {"issue_backup_commands", "build_full_backup_command",
             "build_incremental_backup_command", "backup_incremental"}

\* One call: issue_backup_commands on a plan, a builder of planner.py on
\* its input, or the part of the incremental backup command from its
\* partition list on (the list find_recent_partitions returned holds rows
\* of the configured database only, tables of the group BuildCliGroupTables).
BuildCliGroupTables == {"t1", "t2"}
BuildInit ==
    /\ \/ \E pl \in BuildPlans :
            buildq = [fn |-> "issue_backup_commands", pc |-> "call",
                      input |-> pl, result |-> None, sent |-> <<>>]
       \/ \E g \in BuildGroups :
            buildq = [fn |-> "build_full_backup_command", pc |-> "call",
                      input |-> g, result |-> None, sent |-> <<>>]
       \/ \E pt \in BuildPartitionLists :
            buildq = [fn |-> "build_incremental_backup_command",
                      pc |-> "call", input |-> pt, result |-> None,
                      sent |-> <<>>]
       \/ \E pt \in {x \in BuildPartitionLists :
                       \A i \in 1..Len(x) : x[i].database = "db1"} :
            buildq = [fn |-> "backup_incremental", pc |-> "call",
                      input |-> pt, result |-> None, sent |-> <<>>]
    /\ OldIdleVars
    /\ MonIdleVars /\ ExIdleVars /\ PlanIdleVars /\ LabIdleVars
    /\ LastIdleVars
    /\ RecentIdleVars /\ RrIdleVars /\ CqIdleVars

\* issue_backup_commands: every statement is executed.
BuildIssue ==
    /\ buildq.pc = "call" /\ buildq.fn = "issue_backup_commands"
    /\ LET stmts == IssueBackupCommands(buildq.input, "repo")
       IN buildq' = [buildq EXCEPT !.pc = "returned", !.result = stmts,
                                   !.sent = stmts]
    /\ UNCHANGED buildOthers

\* build_full_backup_command returns its text.
BuildFull ==
    /\ buildq.pc = "call" /\ buildq.fn = "build_full_backup_command"
    /\ buildq' = [buildq EXCEPT
                    !.pc = "returned",
                    !.result = <<BuildFullBackupCommand(buildq.input, "repo",
                                                        "L1", "db1")>>]
    /\ UNCHANGED buildOthers

\* build_incremental_backup_command returns its text.
BuildIncremental ==
    /\ buildq.pc = "call" /\ buildq.fn = "build_incremental_backup_command"
    /\ buildq' = [buildq EXCEPT
                    !.pc = "returned",
                    !.result = <<BuildIncrementalBackupCommand(
                                    buildq.input, "repo", "L1", "db1")>>]
    /\ UNCHANGED buildOthers

\* backup_incremental: no partitions, exit 1; else the command is built
\* and execute_backup submits it.
BuildCliIncremental ==
    /\ buildq.pc = "call" /\ buildq.fn = "backup_incremental"
    /\ IF buildq.input = <<>>
       THEN buildq' = [buildq EXCEPT !.pc = "returned"]
       ELSE LET cmd == BuildIncrementalBackupCommand(buildq.input, "repo",
                                                     "L1", "db1")
            IN buildq' = [buildq EXCEPT !.pc = "returned",
                                        !.result = <<cmd>>,
                                        !.sent = <<cmd>>]
    /\ UNCHANGED buildOthers

BuildNext == BuildIssue \/ BuildFull \/ BuildIncremental \/ BuildCliIncremental

SpecBuild == BuildInit /\ [][BuildNext]_vars

BuildReturned == buildq # <<>> /\ buildq.pc = "returned"
OnTables(stmt) == {stmt.on[i].table : i \in 1..Len(stmt.on)}
SeqRange(seq) == {seq[i] : i \in 1..Len(seq)}

\* Target tables of a full build: the plan's tables, or the tables of the
\* group that belong to the target database.
BuildFullTargets ==
    IF buildq.fn = "issue_backup_commands" THEN SeqRange(buildq.input.tables)
    ELSE {r.table : r \in {x \in SeqRange(buildq.input) : x.database = "db1"}}

BuildIsFull ==
    \/ buildq.fn = "issue_backup_commands" /\ buildq.input.backup_type = "full"
    \/ buildq.fn = "build_full_backup_command"

\* C21: every full BACKUP statement the tool builds has an ON list that
\* names every target table of the plan and, besides them, the control
\* table ops.backup_history.
C21_FullStatementListsControlTable ==
    (BuildReturned /\ BuildIsFull) =>
        \A i \in 1..Len(buildq.result) :
            buildq.result[i] # EmptyStatement =>
                /\ buildq.result[i].has_on
                /\ BuildFullTargets \subseteq OnTables(buildq.result[i])
                /\ ControlTable \in OnTables(buildq.result[i])

\* What holds of issue_backup_commands alone: its full statement lists the
\* plan's tables in order and then the control table.
IssueFullListsControlTable ==
    (BuildReturned /\ buildq.fn = "issue_backup_commands"
        /\ buildq.input.backup_type = "full") =>
        /\ Len(buildq.result) = 1
        /\ [i \in 1..Len(buildq.result[1].on) |-> buildq.result[1].on[i].table]
             = buildq.input.tables \o <<ControlTable>>

\* The object of a statement that names a table, if it has one.
ObjectsOf(stmt, table) ==
    {i \in 1..Len(stmt.on) : stmt.on[i].table = table}

\* C29: for an incremental backup, the statement built for a table names it
\* with a PARTITION clause listing exactly its changed partitions when it
\* has some, names it bare when it has none, and no statement has an empty
\* PARTITION () list.
C29_PartitionClauseIffChanged ==
    BuildReturned =>
        /\ (buildq.fn = "issue_backup_commands"
              /\ buildq.input.backup_type = "incremental") =>
              \A i \in 1..Len(buildq.input.tables) :
                 LET entry == buildq.input.partitions_by_table[
                                  buildq.input.tables[i]]
                     changed == IF entry = NoEntry THEN <<>> ELSE entry
                     obj == buildq.result[i].on[1]
                 IN /\ obj.table = buildq.input.tables[i]
                    /\ obj.has_partition_clause <=> changed # <<>>
                    /\ obj.partitions = changed
        /\ (buildq.fn = "backup_incremental" /\ buildq.sent # <<>>) =>
              \A t \in BuildCliGroupTables :
                 LET changed == PartitionsOfTable(buildq.input, t)
                 IN \E i \in ObjectsOf(buildq.sent[1], t) :
                       LET obj == buildq.sent[1].on[i]
                       IN /\ obj.has_partition_clause <=> changed # <<>>
                          /\ obj.partitions = changed
        /\ \A k \in 1..Len(buildq.result) :
              buildq.result[k] # EmptyStatement =>
                 \A i \in 1..Len(buildq.result[k].on) :
                    buildq.result[k].on[i].has_partition_clause =>
                        buildq.result[k].on[i].partitions # <<>>

\* What holds of issue_backup_commands alone: one statement per table of
\* the plan, with the clause exactly when the table has partitions.
IssueIncrementalClauseIffChanged ==
    (BuildReturned /\ buildq.fn = "issue_backup_commands"
        /\ buildq.input.backup_type = "incremental") =>
        /\ Len(buildq.result) = Len(buildq.input.tables)
        /\ \A i \in 1..Len(buildq.input.tables) :
              buildq.result[i].on =
                 IncrementalObjects(buildq.input.tables[i],
                     buildq.input.partitions_by_table[buildq.input.tables[i]])

\* The input of the call names no table of the target.
BuildEmptyInput ==
    CASE buildq.fn = "issue_backup_commands" -> buildq.input.tables = <<>>
      [] buildq.fn = "build_full_backup_command" ->
            ~ \E r \in SeqRange(buildq.input) : r.database = "db1"
      [] OTHER -> ~ \E r \in SeqRange(buildq.input) : r.database = "db1"

\* C30: no statement sent to the engine is empty or has an empty ON list,
\* and on an empty table list or partition list the builders return no
\* statement and nothing is sent.
C30_NothingSentForEmptyInput ==
    BuildReturned =>
        /\ \A i \in 1..Len(buildq.sent) :
              /\ buildq.sent[i] # EmptyStatement
              /\ buildq.sent[i].has_on => buildq.sent[i].on # <<>>
        /\ BuildEmptyInput =>
              /\ \A i \in 1..Len(buildq.result) :
                    buildq.result[i] = EmptyStatement
              /\ buildq.sent = <<>>

\* What holds: the builders of planner.py return the empty text on an
\* empty input, the incremental command sends nothing without partitions,
\* and no statement sent has an empty ON list.
BuildersReturnEmptyOnEmptyInput ==
    BuildReturned =>
        /\ \A i \in 1..Len(buildq.sent) :
              /\ buildq.sent[i] # EmptyStatement
              /\ buildq.sent[i].has_on => buildq.sent[i].on # <<>>
        /\ (BuildEmptyInput /\ buildq.fn # "issue_backup_commands") =>
              /\ \A i \in 1..Len(buildq.result) :
                    buildq.result[i] = EmptyStatement
              /\ buildq.sent = <<>>

\* ------------------------------------------------------------------------
\* planner.py find_recent_partitions
\* ------------------------------------------------------------------------

\* Latest finished_at of a history row.
MaxRecentTime == 2

RecentDatabase == <<"d">>
\* Labels of ops.backup_history: d_a and dxb match LIKE 'd_%', e_c does not.
RecentLabels == {<<"d", "_", "a">>, <<"d", "x", "b">>, <<"e", "_", "c">>}
RecentAbsent == [absent |-> TRUE]
RecentRows ==
    {RecentAbsent} \cup
    [backup_type : {"full", "incremental"}, status : {"FINISHED", "FAILED"},
     finished_at : 1..MaxRecentTime]
RecentHistories == [RecentLabels -> RecentRows]

\* baseline_backup_label: None, the empty text, or a label.
EmptyText == <<>>
RecentBaselines == {None, <<EmptyText>>} \cup {<<l>> : l \in RecentLabels}

\* ops.table_inventory rows of the group, as find_tables_by_group orders
\* them.
RecentGroupEntries ==
    <<[database |-> <<"d">>, table |-> "t1"],
      [database |-> <<"e">>, table |-> "t2"]>>
RecentGroups ==
    {KeepIn(RecentGroupEntries, g) :
        g \in SUBSET {RecentGroupEntries[i] : i \in 1..Len(RecentGroupEntries)}}

\* find_latest_full_backup: the rows its query selects, and the finished_at
\* of the first of them in descending order (None when there are none).
LatestFullRows(hist, database) ==
    {l \in DOMAIN hist :
        /\ hist[l] # RecentAbsent
        /\ hist[l].backup_type = "full"
        /\ hist[l].status = "FINISHED"
        /\ LikeStartsWith(l, database \o <<"_">>)}
FindLatestFullBackup(hist, database) ==
    LET rows == LatestFullRows(hist, database)
    IN IF rows = {} THEN None
       ELSE <<MaxOf({hist[l].finished_at : l \in rows})>>

\* The baseline part of find_recent_partitions: the queries it issues, the
\* error it raises (None when it raises none) and the baseline time.
\* Variant that falls back to the latest full backup when the label given
\* has no FINISHED row.
RecentMutFallsBack(hist, database, baseline_backup_label) ==
    LET given == baseline_backup_label # None
                    /\ baseline_backup_label # <<EmptyText>>
        found == given /\ hist[baseline_backup_label[1]] # RecentAbsent
                       /\ hist[baseline_backup_label[1]].status = "FINISHED"
        latest == FindLatestFullBackup(hist, database)
    IN IF found
       THEN [queries |-> <<"baseline">>, raised |-> None,
             baseline_time |-> <<hist[baseline_backup_label[1]].finished_at>>]
       ELSE [queries |-> IF given THEN <<"baseline", "latest_full">>
                         ELSE <<"latest_full">>,
             raised |-> IF latest = None THEN <<"no full backup">> ELSE None,
             baseline_time |-> latest]

RecentBaseline(hist, database, baseline_backup_label) ==
    IF baseline_backup_label # None /\ baseline_backup_label # <<EmptyText>>
    THEN LET row == hist[baseline_backup_label[1]]
         IN IF row = RecentAbsent \/ row.status # "FINISHED"
            THEN [queries |-> <<"baseline">>,
                  raised |-> <<"baseline not found">>,
                  baseline_time |-> None]
            ELSE [queries |-> <<"baseline">>, raised |-> None,
                  baseline_time |-> <<row.finished_at>>]
    ELSE LET latest == FindLatestFullBackup(hist, database)
         IN [queries |-> <<"latest_full">>,
             raised |-> IF latest = None THEN <<"no full backup">> ELSE None,
             baseline_time |-> latest]

\* information_schema.partitions_meta: partition p1 of every table of the
\* inventory, with the VISIBLE_VERSION_TIME given.
RecentPartitionRows(db_group_tables) ==
    [i \in 1..Len(db_group_tables) |->
        [database |-> db_group_tables[i].database,
         table |-> db_group_tables[i].table, partition_name |-> "p1"]]

\* find_recent_partitions.
FindRecentPartitions(hist, group_tables, version_time, database, baseline) ==
    LET b == RecentBaseline(hist, database, baseline)
        db_group_tables ==
            KeepIn(group_tables,
                   {t \in {group_tables[i] : i \in 1..Len(group_tables)} :
                       t.database = database})
    IN IF b.raised # None
       THEN [queries |-> b.queries, raised |-> b.raised, result |-> <<>>]
       ELSE IF group_tables = <<>> \/ db_group_tables = <<>>
       THEN [queries |-> b.queries \o <<"group_tables">>, raised |-> None,
             result |-> <<>>]
       ELSE [queries |-> b.queries \o <<"group_tables", "partitions">>,
             raised |-> None,
             result |-> IF version_time > b.baseline_time[1]
                        THEN RecentPartitionRows(db_group_tables)
                        ELSE <<>>]

RecentInit ==
    /\ \E hist \in RecentHistories, g \in RecentGroups,
          vt \in 1..(MaxRecentTime + 1), b \in RecentBaselines :
          recentq = [pc |-> "call", hist |-> hist, group |-> g,
                     version_time |-> vt, baseline |-> b, queries |-> <<>>,
                     raised |-> None, result |-> <<>>]
    /\ OldIdleVars
    /\ MonIdleVars /\ ExIdleVars /\ PlanIdleVars /\ LabIdleVars
    /\ LastIdleVars
    /\ BuildIdleVars /\ RrIdleVars /\ CqIdleVars

RecentCall ==
    /\ recentq.pc = "call"
    /\ LET r == FindRecentPartitions(recentq.hist, recentq.group,
                    recentq.version_time, RecentDatabase, recentq.baseline)
       IN recentq' = [recentq EXCEPT !.pc = "returned",
                         !.queries = r.queries, !.raised = r.raised,
                         !.result = r.result]
    /\ UNCHANGED recentOthers

RecentNext == RecentCall

SpecRecent == RecentInit /\ [][RecentNext]_vars

RecentReturned == recentq # <<>> /\ recentq.pc = "returned"
RecentGiven == recentq.baseline # None /\ recentq.baseline # <<EmptyText>>
RecentGivenFinished ==
    /\ RecentGiven
    /\ recentq.hist[recentq.baseline[1]] # RecentAbsent
    /\ recentq.hist[recentq.baseline[1]].status = "FINISHED"
RecentSomeFinishedFull ==
    \E l \in RecentLabels :
        /\ recentq.hist[l] # RecentAbsent
        /\ recentq.hist[l].backup_type = "full"
        /\ recentq.hist[l].status = "FINISHED"
RecentQueried(q) == \E i \in 1..Len(recentq.queries) : recentq.queries[i] = q

RrLabels == {LabelA1, LabelA2}

\* Rows of ops.table_inventory for the --group option: None without the
\* option, else the set of tables of the group.
RrGroups == {None, <<{}>>, <<{<<RfDatabase, <<"t1">> >>}>>}

\* get_tables_from_backup over the ops.backup_partitions rows of the label.
GetTablesFromBackup(rows, group) ==
    IF rows = <<>> THEN <<>>
    ELSE IF group = None THEN rows
    ELSE IF group[1] = {} THEN <<>>
    ELSE KeepIn(rows, group[1])

\* The guards of execute_restore_flow: the message it returns at once, None
\* when it goes on to the confirmation prompt.
\* Variant without the guard on the table list.
FlowGuardMutIgnoresTables(restore_pair, tables_to_restore) ==
    IF restore_pair = <<>> THEN <<"No restore pair provided">> ELSE None

FlowGuard(restore_pair, tables_to_restore) ==
    IF restore_pair = <<>> THEN <<"No restore pair provided">>
    ELSE IF tables_to_restore = <<>> THEN <<"No tables to restore">>
    ELSE None

RrInit ==
    /\ \E h \in [RrLabels -> HistoryRows], t \in RrLabels,
          rows \in RfTableLists, g \in RrGroups, a \in RfAnswers :
        rr = [pc |-> "find_pair", hist |-> h, target |-> t, rows |-> rows,
              group |-> g, answer |-> a, pair |-> <<>>, tables |-> <<>>,
              step |-> "base", stmts |-> <<>>, success |-> FALSE,
              message |-> None]
    /\ OldIdleVars
    /\ MonIdleVars /\ ExIdleVars /\ PlanIdleVars /\ LabIdleVars
    /\ LastIdleVars
    /\ RecentIdleVars /\ BuildIdleVars /\ CqIdleVars

\* find_restore_pair: a ValueError ends the command.
RrFindPair ==
    /\ rr.pc = "find_pair"
    /\ \E r \in FindRestorePair(rr.hist, rr.target) :
        rr' = IF r.raised
              THEN [rr EXCEPT !.pc = "done",
                              !.message = <<"find_restore_pair raised">>]
              ELSE [rr EXCEPT !.pc = "get_tables", !.pair = r.pair]
    /\ UNCHANGED rrOthers

\* get_tables_from_backup for the target label.
RrGetTables ==
    /\ rr.pc = "get_tables"
    /\ rr' = [rr EXCEPT !.pc = "flow",
                        !.tables = GetTablesFromBackup(rr.rows, rr.group)]
    /\ UNCHANGED rrOthers

\* execute_restore_flow up to the confirmation prompt.
RrFlowStart ==
    /\ rr.pc = "flow"
    /\ LET g == FlowGuard(rr.pair, rr.tables)
       IN rr' = IF g # None THEN [rr EXCEPT !.pc = "done", !.message = g]
                ELSE IF ~Confirmed(rr.answer)
                THEN [rr EXCEPT !.pc = "done",
                         !.message = <<"Restore operation cancelled by user">>]
                ELSE [rr EXCEPT !.pc = "restore", !.step = "base"]
    /\ UNCHANGED rrOthers

\* One execute_restore of the flow: the statement is submitted, and the
\* flow goes on as the state its monitor returned tells.
RrRestore ==
    /\ rr.pc = "restore"
    /\ \E st \in PollRestoreStates :
        LET cmd == RfStepCommand(rr.step, rr.pair, rr.tables)
            nxt == RfAfterStep(rr.step, st, rr.pair)
        IN rr' = [rr EXCEPT
                    !.stmts = Append(rr.stmts, cmd),
                    !.pc = IF nxt = "failed" THEN "done"
                           ELSE IF nxt = "inc_submit" THEN "restore"
                           ELSE "rename",
                    !.step = IF nxt = "inc_submit" THEN "inc" ELSE rr.step,
                    !.message = IF nxt = "failed"
                                THEN <<"restore failed">> ELSE rr.message]
    /\ UNCHANGED rrOthers

\* _perform_atomic_rename: the statements up to the first that raises, or
\* all of them.
RrRename ==
    /\ rr.pc = "rename"
    /\ LET sts == RenameStatements(rr.tables, RenameSuffix)
       IN \E k \in 1..Len(sts), ok \in BOOLEAN :
            rr' = [rr EXCEPT
                     !.stmts = rr.stmts \o SubSeq(sts, 1, k),
                     !.pc = "done",
                     !.success = (k = Len(sts) /\ ok),
                     !.message = IF k = Len(sts) /\ ok THEN None
                                 ELSE <<"Atomic rename failed">>]
    /\ UNCHANGED rrOthers

RrNext == RrFindPair \/ RrGetTables \/ RrFlowStart \/ RrRestore \/ RrRename

SpecRestoreRun == RrInit /\ [][RrNext]_vars

\* The chain of the target label can be resolved: the label has a FINISHED
\* row, an incremental one has a FINISHED full backup before it, and the
\* backup names tables to restore.
RrTargetFinished ==
    rr.hist[rr.target].present /\ rr.hist[rr.target].status = "FINISHED"
RrHasPrecedingFull ==
    \E l \in RrLabels :
        /\ rr.hist[l].present
        /\ rr.hist[l].backup_type = "full"
        /\ rr.hist[l].status = "FINISHED"
        /\ rr.hist[l].finished_at < rr.hist[rr.target].finished_at
RrChainResolved ==
    /\ RrTargetFinished
    /\ rr.hist[rr.target].backup_type = "incremental" => RrHasPrecedingFull
    /\ GetTablesFromBackup(rr.rows, rr.group) # <<>>

\* C23: a restore whose chain cannot be resolved (target label absent or
\* not FINISHED, incremental target without preceding FINISHED full backup,
\* no tables found in the backup) issues no RESTORE and no RENAME statement
\* and ends as a failure.
C23_UnresolvedChainIssuesNothing ==
    (rr # <<>> /\ ~RrChainResolved) =>
        /\ rr.stmts = <<>>
        /\ rr.pc = "done" => ~rr.success /\ rr.message # None

\* The command ended without statement for a FINISHED full target whose
\* backup names tables, none of them in the group, though the operator
\* would have confirmed.
C23_Witness ==
    /\ rr # <<>> /\ rr.pc = "done" /\ rr.stmts = <<>>
    /\ RrTargetFinished
    /\ rr.hist[rr.target].backup_type = "full"
    /\ rr.rows # <<>> /\ GetTablesFromBackup(rr.rows, rr.group) = <<>>
    /\ rr.answer \in {"y", "Y", " y"}

\* ------------------------------------------------------------------------
\* concurrency.py complete_job_slot on rows with their finished_at
\* ------------------------------------------------------------------------

\* Latest value of the engine's clock NOW().
MaxClock == 3

\* A row of ops.run_status: absent, or its state and finished_at (None for
\* NULL).
CqAbsent == [absent |-> TRUE]
CqRows ==
    {CqAbsent, [state |-> "ACTIVE", finished_at |-> None],
     [state |-> "FINISHED", finished_at |-> <<1>>]}
CqFinalStates == {"FINISHED", "FAILED", "CANCELLED"}

\* UPDATE ops.run_status SET state=.., finished_at=NOW() WHERE scope=..
\* AND label=..
CompleteJobSlot(rows, scope, label, final_state, now) ==
    IF rows[<<scope, label>>] = CqAbsent THEN rows
    ELSE [rows EXCEPT ![<<scope, label>>] =
             [state |-> final_state, finished_at |-> <<now>>]]

CqInit ==
    /\ \E t \in [RunKeys -> CqRows], k \in RunKeys, f \in CqFinalStates :
        cq = [rows |-> t, scope |-> k[1], label |-> k[2], final_state |-> f,
              now |-> 1, calls |-> 0, after_first |-> t]
    /\ OldIdleVars
    /\ MonIdleVars /\ ExIdleVars /\ PlanIdleVars /\ LabIdleVars
    /\ LastIdleVars
    /\ RecentIdleVars /\ BuildIdleVars /\ RrIdleVars

\* Time passes.
CqTick ==
    /\ cq.now < MaxClock
    /\ cq' = [cq EXCEPT !.now = cq.now + 1]
    /\ UNCHANGED cqOthers

\* complete_job_slot(db, scope, label, final_state), at most twice.
CqComplete ==
    /\ cq.calls < 2
    /\ LET rows == CompleteJobSlot(cq.rows, cq.scope, cq.label,
                                   cq.final_state, cq.now)
       IN cq' = [cq EXCEPT !.rows = rows, !.calls = cq.calls + 1,
                           !.after_first = IF cq.calls = 0 THEN rows
                                           ELSE cq.after_first]
    /\ UNCHANGED cqOthers

CqNext == CqTick \/ CqComplete

SpecComplete == CqInit /\ [][CqNext]_vars

\* C24: after two calls of complete_job_slot with the same scope, label and
\* final_state every row of ops.run_status, state and finished_at, is as
\* the first call left it.
C24_CompleteTwiceAsOnce ==
    (cq # <<>> /\ cq.calls = 2) => cq.rows = cq.after_first

\* What holds: the second call leaves every state, and every row of another
\* key, as the first call left it.
CompleteTwiceKeepsStates ==
    (cq # <<>> /\ cq.calls = 2) =>
        \A k \in RunKeys :
            /\ k # <<cq.scope, cq.label>> => cq.rows[k] = cq.after_first[k]
            /\ cq.rows[k] # CqAbsent =>
                  /\ cq.after_first[k] # CqAbsent
                  /\ cq.rows[k].state = cq.after_first[k].state

\* ------------------------------------------------------------------------
\* The monitors on a status query that raises
\* ------------------------------------------------------------------------

\* C25: in poll_backup_status and poll_restore_status a status query that
\* raises makes the monitor return ERROR on that poll, with no further
\* status query in the call.
C25_QueryErrorReturnsError ==
    (mon # <<>> /\ mon.fn \in BudgetedFns) =>
        \A i \in 1..Len(mon.log) :
            mon.log[i].kind = "exception" => MonReturnedAt(i, "ERROR")

\* A query raised after an earlier poll without outcome, with polls left
\* in the budget, and the call returned ERROR.
C25_Witness ==
    /\ mon # <<>> /\ mon.fn \in BudgetedFns
    /\ Len(mon.log) >= 2 /\ Len(mon.log) < mon.max_polls
    /\ mon.log[Len(mon.log)].kind = "exception"
    /\ MonReturnedAt(Len(mon.log), "ERROR")

\* ------------------------------------------------------------------------
\* Finalization in execute_backup and execute_restore
\* ------------------------------------------------------------------------

\* C26: whatever the monitor returned, execute_backup and execute_restore
\* return the success flag, final_status and error_message that follow from
\* the monitor's state alone, whether the history write and the slot
\* completion succeeded or raised, and the slot completion is attempted
\* also after a history write that raised.
C26_FinalizationDoesNotMaskOutcome ==
    (ex # <<>> /\ ex.pc = "returned" /\ ex.final_status # None) =>
        /\ ex.result = ExResult(ex.fn, ex.final_status)
        /\ ex.result.final_status = ex.final_status
        /\ ex.result.success <=> ex.final_status.state = "FINISHED"
        /\ ex.complete_called

\* The history write and the slot completion both raised after a FINISHED
\* job, and the call returned success.
C26_Witness ==
    /\ ex # <<>> /\ ex.pc = "returned"
    /\ ex.final_status # None /\ ex.final_status.state = "FINISHED"
    /\ ~ex.logged /\ ex.complete_called /\ ~ex.completed
    /\ ex.result.success

\* ------------------------------------------------------------------------
\* The states written to ops.run_status by the backup runs
\* ------------------------------------------------------------------------

RunStatusStates == {"ACTIVE", "FINISHED", "FAILED", "CANCELLED"}

\* C27: after any sequence of reservations and executor runs, with any
\* monitor outcome, the state of every row of ops.run_status is one of
\* ACTIVE, FINISHED, FAILED, CANCELLED ("NONE" stands for no row).
C27_RunStatusStateInDomain ==
    \A k \in RunKeys : run_status[k] \in RunStatusStates \cup {"NONE"}

\* What holds: a row is ACTIVE or carries the state the monitor returned,
\* whichever it was.
RunStatusHoldsMonitorState ==
    \A k \in RunKeys :
        run_status[k] \in {"NONE", "ACTIVE"} \cup PollBackupStates

\* ------------------------------------------------------------------------
\* The order of the steps of one backup run (bk[p].steps)
\* ------------------------------------------------------------------------

\* Position of a step in an order of the steps.
RECURSIVE StepRank(_, _)
StepRank(order, step) ==
    IF Head(order) = step THEN 1 ELSE 1 + StepRank(Tail(order), step)

\* The steps were taken in the order given, none of them twice.
StepsFollow(order, steps) ==
    \A i, j \in 1..Len(steps) :
        i < j => StepRank(order, steps[i]) < StepRank(order, steps[j])

ClaimedStepOrder ==
    <<"plan", "label", "reserve", "submit", "poll", "finalize">>
CodedStepOrder ==
    <<"label", "reserve", "plan", "submit", "poll", "finalize">>

\* C28: in one backup run the steps occur in the order plan decision, label
\* resolution, slot reservation, statement submission, polling,
\* finalization, each at most once, and the BACKUP statement is submitted
\* at most once.
C28_StepsInOrder ==
    \A p \in Invocations :
        /\ StepsFollow(ClaimedStepOrder, bk[p].steps)
        /\ Cardinality({i \in 1..Len(bk[p].stmts) :
                           bk[p].stmts[i] = "BACKUP"}) <= 1

\* What holds: the plan is decided after the label is resolved and the slot
\* reserved; otherwise the order is the one claimed, every step is taken at
\* most once, and so is the submission of the BACKUP statement.
BkStepsInCodedOrder ==
    \A p \in Invocations :
        /\ StepsFollow(CodedStepOrder, bk[p].steps)
        /\ Cardinality({i \in 1..Len(bk[p].stmts) :
                           bk[p].stmts[i] = "BACKUP"}) <= 1

\* ------------------------------------------------------------------------
\* The database of the full backup find_restore_pair prepends
\* ------------------------------------------------------------------------

\* generate_label: a label is {database}_{tag}; the labels of the model
\* have a tag of one character, so the database is the label without its
\* last two characters.
DatabaseOfLabel(label) == SubSeq(label, 1, Len(label) - 2)

\* C31: the full backup that find_restore_pair prepends for an incremental
\* target is a backup of the database of the target.
C31_PairWithinOneDatabase ==
    (pairq # <<>> /\ pairq.pc = "returned" /\ ~pairq.out.raised
        /\ Len(pairq.out.pair) = 2) =>
        DatabaseOfLabel(pairq.out.pair[1]) = DatabaseOfLabel(pairq.out.pair[2])

\* ------------------------------------------------------------------------
\* The cutover of execute_restore_flow
\* ------------------------------------------------------------------------

RfRenameCalls == SelectSeq(rf.calls, LAMBDA c : c.stmt.kind = "RENAME")

\* C32: no RENAME statement is executed unless every restore step of the
\* chain ended in FINISHED, and the renames run table by table in the order
\* given, for each table first the live table to its _backup name and then
\* the temporary table to the live name.
C32_RenameAfterAllRestoresInOrder ==
    rf # <<>> =>
        /\ RfRenameCalls # <<>> =>
              /\ Len(rf.monitored) = Len(rf.pair)
              /\ \A i \in 1..Len(rf.monitored) : rf.monitored[i] = "FINISHED"
        /\ Len(RfRenameCalls) <= 2 * Len(rf.tables)
        /\ \A k \in 1..Len(RfRenameCalls) :
              LET t == rf.tables[(k + 1) \div 2]
                  st == RfRenameCalls[k].stmt
              IN /\ st.db = t[1]
                 /\ k % 2 = 1 =>
                       st.from = t[2] /\ st.to = Suffixed(t[2], "_backup")
                 /\ k % 2 = 0 =>
                       st.from = Suffixed(t[2], RenameSuffix) /\ st.to = t[2]

\* Both restores of a two-step chain finished and the four renames of two
\* tables were executed.
C32_Witness ==
    /\ rf # <<>> /\ rf.pc = "done" /\ rf.success
    /\ Len(rf.pair) = 2 /\ Len(rf.tables) = 2
    /\ Len(RfRenameCalls) = 4

\* The flow reached the cutover and returned.
RfCutoverEnded ==
    rf # <<>> /\ rf.pc = "done" /\ RfRenameCalls # <<>>

\* C33: when the cutover ends, either both renames were applied for every
\* target table, or the result is a failure; and a failure after at least
\* one applied rename differs from every result the flow returns for a
\* cutover that failed on its first rename and changed nothing.
C33_PartialCutoverReported ==
    RfCutoverEnded =>
        \/ rf.success /\ rf.renamed = 2 * Len(rf.tables)
        \/ /\ ~rf.success
           /\ rf.renamed >= 1 =>
                 rf.message \notin {RenameFailureMessage(e) : e \in RenameErrors}

\* What holds: the flow returns success exactly when every rename was
\* applied, and otherwise the failure message of the rename that raised.
RfCutoverSuccessIffAllRenamed ==
    RfCutoverEnded =>
        /\ rf.success <=> rf.renamed = 2 * Len(rf.tables)
        /\ ~rf.success =>
              rf.message \in {RenameFailureMessage(e) : e \in RenameErrors}

\* ------------------------------------------------------------------------
\* The confirmation prompt of execute_restore_flow
\* ------------------------------------------------------------------------

\* The answers that are 'y' in either case, surrounding blanks aside.
RfYesAnswers == {"y", "Y", " y"}

PollMutObservesRunStatus(first_poll, label, resp, row_state) ==
    IF row_state = "CANCELLED"
    THEN [ret |-> "CANCELLED", first_poll |-> first_poll]
    ELSE PollIteration(first_poll, label, resp)

PollBackupStep(first_poll, label, resp, row_state) ==
    PollIteration(first_poll, label, resp)

TwinRuns == {"a", "b"}
TwinRowStates == {"NONE", "ACTIVE", "FINISHED"}

\* Both executions are called with the same label and budget, and start
\* from the same row of the job in ops.run_status.
TwinInit ==
    /\ \E mp \in 0..MaxPollArg, row \in TwinRowStates :
        twin = [label |-> MonLabel, max_polls |-> mp, log |-> <<>>,
                row |-> [r \in TwinRuns |-> row],
                run |-> [r \in TwinRuns |->
                           [pc |-> "polling", first_poll |-> TRUE,
                            queries |-> 0, result |-> "none"]]]
    /\ OldIdleVars
    /\ MonIdleVars /\ ExIdleVars /\ PlanIdleVars /\ LabIdleVars
    /\ RecentIdleVars /\ BuildIdleVars /\ RrIdleVars /\ CqIdleVars
    /\ RbIdleVars /\ XlIdleVars

\* One iteration of a run after the engine's answer resp.
TwinIterate(r, resp) ==
    LET me == twin.run[r]
        out == PollBackupStep(me.first_poll, twin.label, resp, twin.row[r])
    IN IF me.pc # "polling" THEN me
       ELSE [pc |-> IF out.ret = "none" THEN "polling" ELSE "returned",
             first_poll |-> out.first_poll, queries |-> me.queries + 1,
             result |-> out.ret]

\* The engine gives its next answer, the same to both executions.
TwinQuery ==
    /\ \E r \in TwinRuns : twin.run[r].pc = "polling"
    /\ \A r \in TwinRuns :
          twin.run[r].pc = "polling" =>
              MonBudgetLeft(twin.run[r].queries, twin.max_polls)
    /\ \E resp \in MonResponses("poll_backup_status") :
        twin' = [twin EXCEPT !.log = Append(twin.log, resp),
                             !.run = [r \in TwinRuns |-> TwinIterate(r, resp)]]
    /\ UNCHANGED twinOthers

\* The loop of a run is exhausted.
TwinTimeout ==
    /\ \E r \in TwinRuns :
        /\ twin.run[r].pc = "polling"
        /\ ~MonBudgetLeft(twin.run[r].queries, twin.max_polls)
        /\ twin' = [twin EXCEPT !.run[r].pc = "returned",
                                !.run[r].result = "TIMEOUT"]
    /\ UNCHANGED twinOthers

\* An operator sets the run_status row of the job to CANCELLED by hand, in
\* one of the two executions.
TwinCancelOutOfBand ==
    /\ \E r \in TwinRuns :
        /\ twin.row[r] = "ACTIVE"
        /\ twin' = [twin EXCEPT !.row[r] = "CANCELLED"]
    /\ UNCHANGED twinOthers

TwinNext == TwinQuery \/ TwinTimeout \/ TwinCancelOutOfBand

SpecTwin == TwinInit /\ [][TwinNext]_vars

TwinBothReturned ==
    twin # <<>> /\ \A r \in TwinRuns : twin.run[r].pc = "returned"

\* C34: two executions of poll_backup_status with the same label and the
\* same engine answers return the same state after the same number of
\* queries, whatever ops.run_status holds in each; a row set to CANCELLED
\* out of band is not observed.
C34_MonitorIgnoresRunStatus ==
    /\ TwinBothReturned =>
          /\ twin.run["a"].result = twin.run["b"].result
          /\ twin.run["a"].queries = twin.run["b"].queries
    /\ twin # <<>> =>
          \A r \in TwinRuns :
              twin.run[r].result = "CANCELLED" =>
                  /\ twin.log[twin.run[r].queries].kind = "row"
                  /\ twin.log[twin.run[r].queries].state = "CANCELLED"

\* The row of one execution was set to CANCELLED while it polled, the other
\* row stayed ACTIVE, and both executions returned FINISHED after two or
\* more queries.
C34_Witness ==
    /\ TwinBothReturned
    /\ twin.row["a"] = "ACTIVE" /\ twin.row["b"] = "CANCELLED"
    /\ twin.run["a"].queries >= 2
    /\ twin.run["a"].result = "FINISHED" /\ twin.run["b"].result = "FINISHED"

\* ------------------------------------------------------------------------
\* backup.py run_backup: insert_running_history, issue_backup_commands,
\* poll_backup_until_done, update_history_final
\* ------------------------------------------------------------------------

\* Polls of one poll_backup_until_done call that the model tells apart;
\* further polls without a terminal answer leave the state as it is.
MaxRunPolls == 2

\* Plans decide_backup_plan returns: full, incremental, and the empty
\* incremental plan of "nothing changed".
RbPlans ==
    {[backup_type |-> "full", tables |-> <<"db1.t1">>,
      partitions_by_table |-> [t \in PlanTableNames |-> NoEntry]],
     [backup_type |-> "incremental", tables |-> <<"db1.t1">>,
      partitions_by_table |-> [t \in PlanTableNames |-> <<"p1">>]],
     [backup_type |-> "incremental", tables |-> <<>>,
      partitions_by_table |-> [t \in PlanTableNames |-> NoEntry]]}

\* What SHOW BACKUP can answer to a poll: the engine either comes to
\* report a terminal status or never does (it stays empty, or reports a
\* status that is neither FINISHED nor FAILED).
RbEngines == {"terminates", "never_terminal"}
RbAnswers(engine) ==
    IF engine = "terminates"
    THEN {"empty", "RUNNING", "CANCELLED", "FINISHED", "FAILED", "exception"}
    ELSE {"empty", "RUNNING", "CANCELLED"}

\* INSERT INTO ops.backup_history (...) VALUES (.., 'RUNNING', ..): the id
\* is the position of the row; owner and updated_by record which
\* invocation inserted the row and which ones updated it.
InsertRunningHistory(hist, p) ==
    Append(hist, [status |-> "RUNNING", owner |-> p, updated_by |-> <<>>])

\* WHERE status='RUNNING' ORDER BY id DESC LIMIT 1
LatestRunning(hist) ==
    LET ids == {i \in 1..Len(hist) : hist[i].status = "RUNNING"}
    IN IF ids = {} THEN 0 ELSE CHOOSE i \in ids : \A j \in ids : j <= i

\* update_history_final(db, status, ts), called by invocation p.
UpdateHistoryFinal(hist, status, p) ==
    LET i == LatestRunning(hist)
        final == IF status = "FINISHED" THEN "FINISHED" ELSE "FAILED"
    IN IF i = 0 THEN hist
       ELSE [hist EXCEPT ![i].status = final,
                         ![i].updated_by = Append(hist[i].updated_by, p)]

RbInit ==
    /\ \E e \in RbEngines :
        rb = [hist |-> <<>>, engine |-> e,
              run |-> [p \in Invocations |->
                         [pc |-> "plan", plan |-> None, row |-> 0,
                          polls |-> 0, status |-> "none", sent |-> 0,
                          update_raised |-> FALSE]]]
    /\ OldIdleVars
    /\ MonIdleVars /\ ExIdleVars /\ PlanIdleVars /\ LabIdleVars
    /\ RecentIdleVars /\ BuildIdleVars /\ RrIdleVars /\ CqIdleVars
    /\ TwinIdleVars /\ XlIdleVars

\* decide_backup_plan returns a plan, or one of its queries raises.
RbPlan(p) ==
    /\ rb.run[p].pc = "plan"
    /\ \/ \E pl \in RbPlans :
            rb' = [rb EXCEPT !.run[p].pc = "insert", !.run[p].plan = pl]
       \/ rb' = [rb EXCEPT !.run[p].pc = "raised"]
    /\ UNCHANGED rbOthers

\* insert_running_history: the row is inserted, or the statement raises and
\* run_backup ends with the exception.
RbInsert(p) ==
    /\ rb.run[p].pc = "insert"
    /\ \/ rb' = [rb EXCEPT !.hist = InsertRunningHistory(rb.hist, p),
                           !.run[p].row = Len(rb.hist) + 1,
                           !.run[p].pc = "issue"]
       \/ rb' = [rb EXCEPT !.run[p].pc = "raised"]
    /\ UNCHANGED rbOthers

\* issue_backup_commands: every statement of the plan is executed, or one
\* of them raises.
RbIssue(p) ==
    /\ rb.run[p].pc = "issue"
    /\ LET stmts == IssueBackupCommands(rb.run[p].plan, "repo")
       IN \/ rb' = [rb EXCEPT !.run[p].pc = "poll",
                              !.run[p].sent = Len(stmts)]
          \/ /\ stmts # <<>>
             /\ rb' = [rb EXCEPT !.run[p].pc = "except"]
    /\ UNCHANGED rbOthers

\* One iteration of the while True loop of poll_backup_until_done.
RbPoll(p) ==
    /\ rb.run[p].pc = "poll"
    /\ \E a \in RbAnswers(rb.engine) :
        rb' = IF a = "exception"
              THEN [rb EXCEPT !.run[p].pc = "except"]
              ELSE IF a \in {"FINISHED", "FAILED"}
              THEN [rb EXCEPT !.run[p].pc = "final", !.run[p].status = a]
              ELSE [rb EXCEPT !.run[p].polls =
                                 IF rb.run[p].polls < MaxRunPolls
                                 THEN rb.run[p].polls + 1
                                 ELSE rb.run[p].polls]
    /\ UNCHANGED rbOthers

\* update_history_final(db, status, ts) in the try block; if it raises the
\* except clause is entered.
RbFinal(p) ==
    /\ rb.run[p].pc = "final"
    /\ \/ rb' = [rb EXCEPT
                   !.hist = UpdateHistoryFinal(rb.hist, rb.run[p].status, p),
                   !.run[p].pc = "done"]
       \/ rb' = [rb EXCEPT !.run[p].pc = "except",
                           !.run[p].update_raised = TRUE]
    /\ UNCHANGED rbOthers

\* except Exception: update_history_final(db, "FAILED", None); raise.
RbExcept(p) ==
    /\ rb.run[p].pc = "except"
    /\ \/ rb' = [rb EXCEPT
                   !.hist = UpdateHistoryFinal(rb.hist, "FAILED", p),
                   !.run[p].pc = "raised"]
       \/ rb' = [rb EXCEPT !.run[p].pc = "raised",
                           !.run[p].update_raised = TRUE]
    /\ UNCHANGED rbOthers

RbStep(p) ==
    \/ RbPlan(p)
    \/ RbInsert(p)
    \/ RbIssue(p)
    \/ RbPoll(p)
    \/ RbFinal(p)
    \/ RbExcept(p)

RbNext == \E p \in Invocations : RbStep(p)

SpecRunBackup == RbInit /\ [][RbNext]_vars

\* Every invocation is a process of its own that keeps running.
SpecRunBackupLive ==
    SpecRunBackup /\ \A p \in Invocations : WF_vars(RbStep(p))

RbEnded(p) == rb.run[p].pc \in {"done", "raised"}
RbTerminal(i) == rb.hist[i].status \in {"FINISHED", "FAILED"}

\* Every run that inserted its row comes to an end.
RbInsertedRunsEnd ==
    \A p \in Invocations :
        (rb # <<>> /\ rb.run[p].row # 0) ~> RbEnded(p)

\* C35: the backup_history row a run_backup invocation inserted is mutated
\* exactly once, to FINISHED or FAILED, by the time the run ends, and every
\* run that inserted its row ends; runs whose UPDATE statement itself raised
\* are left aside.
C35_RunningRowFinalizedOnce ==
    /\ [](rb # <<>> =>
            \A p \in Invocations :
                (RbEnded(p) /\ rb.run[p].row # 0
                     /\ ~rb.run[p].update_raised) =>
                    /\ RbTerminal(rb.run[p].row)
                    /\ Len(rb.hist[rb.run[p].row].updated_by) = 1)
    /\ RbInsertedRunsEnd

\* C36: the final history update of an invocation changes the row that the
\* same invocation inserted, never the row of the other invocation.
C36_FinalUpdateHitsOwnRow ==
    rb # <<>> =>
        \A i \in 1..Len(rb.hist) :
            \A k \in 1..Len(rb.hist[i].updated_by) :
                rb.hist[i].updated_by[k] = rb.hist[i].owner

\* ------------------------------------------------------------------------
\* The label of a backup run: cli.py reserves the slot of the label it
\* hands to the builder, execute_backup completes the slot of the label it
\* reads back from the statement (executor.py _extract_label_from_command)
\* ------------------------------------------------------------------------

\* Database names and labels, none with whitespace. A label is what
\* generate_label made of the database name, or a name given with --name.
XlDatabases == {"db1", "sales_db", "SNAPSHOT"}
XlLabels == {"db1_20251015_inc", "SNAPSHOT_20251015_full", "nightly", "TO"}
XlNames == XlLabels \cup {"SNAPSHOT", "unknown_backup"}
XlKeys == {"backup"} \X XlNames
XlForms == {"full_wildcard", "full_tables", "incremental"}

\* str.split() of a name without whitespace.
Words(name) == IF name = "" THEN <<>> ELSE <<name>>

\* The text of a statement of the builders, as the lines of
\* command.strip().split('\n') and the words of line.split() of each.
\* Punctuation of the ON clause is shown as words of its own.
RECURSIVE OnLines(_, _)
OnLines(on, first) ==
    IF on = <<>> THEN <<>>
    ELSE <<(IF first THEN <<"ON", "(">> ELSE <<>>)
             \o <<"TABLE", Head(on).table>>
             \o (IF Head(on).has_partition_clause
                 THEN <<"PARTITION", "(">> \o Head(on).partitions \o <<")">>
                 ELSE <<>>)
             \o (IF Len(on) = 1 THEN <<")">> ELSE <<",">>)>>
         \o OnLines(Tail(on), FALSE)

StatementLines(stmt) ==
    IF stmt = EmptyStatement THEN << <<>> >>
    ELSE << <<"BACKUP", "DATABASE">> \o Words(stmt.database)
               \o <<"SNAPSHOT">> \o Words(stmt.snapshot),
            <<"TO">> \o Words(stmt.repository) >>
         \o (IF stmt.has_on THEN OnLines(stmt.on, TRUE) ELSE <<>>)

\* for i, part in enumerate(parts):
\*     if part == 'SNAPSHOT' and i + 1 < len(parts): return parts[i + 1]
NoLabel == <<"no label">>
RECURSIVE WordAfterSnapshot(_, _)
WordAfterSnapshot(parts, i) ==
    IF i > Len(parts) THEN NoLabel
    ELSE IF parts[i] = "SNAPSHOT" /\ i + 1 <= Len(parts) THEN <<parts[i + 1]>>
    ELSE WordAfterSnapshot(parts, i + 1)

\* _extract_label_from_command
RECURSIVE ExtractLabelFromCommand(_)
ExtractLabelFromCommand(lines) ==
    IF lines = <<>> THEN "unknown_backup"
    ELSE LET parts == Head(lines)
         IN IF Len(parts) >= 2 /\ parts[1] = "BACKUP" /\ parts[2] = "DATABASE"
            THEN IF WordAfterSnapshot(parts, 1) # NoLabel
                 THEN WordAfterSnapshot(parts, 1)[1]
                 ELSE ExtractLabelFromCommand(Tail(lines))
            ELSE IF Len(parts) >= 2 /\ parts[1] = "BACKUP"
                    /\ parts[2] = "SNAPSHOT"
            THEN IF Len(parts) >= 3 THEN parts[3]
                 ELSE ExtractLabelFromCommand(Tail(lines))
            ELSE ExtractLabelFromCommand(Tail(lines))

\* The statement the cli command builds for its label and database.
XlCommand(form, database, label) ==
    IF form = "full_wildcard"
    THEN BuildFullBackupCommand(<<[database |-> database, table |-> "*"]>>,
                                "repo", label, database)
    ELSE IF form = "full_tables"
    THEN BuildFullBackupCommand(<<[database |-> database, table |-> "t1"],
                                  [database |-> database, table |-> "t2"]>>,
                                "repo", label, database)
    ELSE BuildIncrementalBackupCommand(
            <<[database |-> database, table |-> "t1",
               partition_name |-> "p1"],
              [database |-> database, table |-> "t2",
               partition_name |-> "p1"]>>,
            "repo", label, database)

\* A backup command of the cli after its label is resolved: no job is
\* active in scope backup.
XlInit ==
    /\ \E d \in XlDatabases, l \in XlLabels, f \in XlForms :
        xl = [pc |-> "reserve", database |-> d, label |-> l, form |-> f,
              rows |-> [k \in XlKeys |-> "NONE"], command |-> None,
              extracted |-> "none", final_state |-> "none",
              complete_raised |-> FALSE]
    /\ OldIdleVars
    /\ MonIdleVars /\ ExIdleVars /\ PlanIdleVars /\ LabIdleVars
    /\ RecentIdleVars /\ BuildIdleVars /\ RrIdleVars /\ CqIdleVars
    /\ TwinIdleVars /\ RbIdleVars

\* concurrency.reserve_job_slot(database, scope='backup', label=label)
XlReserve ==
    /\ xl.pc = "reserve"
    /\ LET r == ReserveAfterQuery(xl.rows, ActiveRows(xl.rows), "backup",
                                  xl.label)
       IN xl' = [xl EXCEPT !.rows = r.rs,
                           !.pc = IF r.raised THEN "exit" ELSE "build"]
    /\ UNCHANGED xlOthers

\* planner.build_full_backup_command / build_incremental_backup_command
XlBuild ==
    /\ xl.pc = "build"
    /\ xl' = [xl EXCEPT !.command = XlCommand(xl.form, xl.database, xl.label),
                        !.pc = "execute"]
    /\ UNCHANGED xlOthers

\* execute_backup up to the submission: the label is read back from the
\* statement; a failed submission returns at once.
XlSubmit ==
    /\ xl.pc = "execute"
    /\ \E ok \in BOOLEAN :
        xl' = [xl EXCEPT
                 !.extracted =
                     ExtractLabelFromCommand(StatementLines(xl.command)),
                 !.pc = IF ok THEN "poll" ELSE "returned_unsubmitted"]
    /\ UNCHANGED xlOthers

\* poll_backup_status returns its final state.
XlPoll ==
    /\ xl.pc = "poll"
    /\ \E st \in MonitorStates :
        xl' = [xl EXCEPT !.final_state = st, !.pc = "complete"]
    /\ UNCHANGED xlOthers

\* complete_job_slot(db, scope=scope, label=label, final_state=..) inside
\* try/except pass, then the return.
XlComplete ==
    /\ xl.pc = "complete"
    /\ \/ xl' = [xl EXCEPT
                   !.rows = CompleteRow(xl.rows, "backup", xl.extracted,
                                        xl.final_state),
                   !.pc = "returned"]
       \/ xl' = [xl EXCEPT !.complete_raised = TRUE, !.pc = "returned"]
    /\ UNCHANGED xlOthers

XlNext ==
    \/ XlReserve
    \/ XlBuild
    \/ XlSubmit
    \/ XlPoll
    \/ XlComplete

SpecLabel == XlInit /\ [][XlNext]_vars

\* C38: the label execute_backup reads back from the statement is the label
\* given to the builder and to reserve_job_slot, and after execute_backup
\* has returned from polling the reserved row is not ACTIVE (runs whose
\* complete_job_slot statement raised are left aside).
C38_ReleasesReservedSlot ==
    xl # <<>> =>
        /\ xl.extracted # "none" => xl.extracted = xl.label
        /\ (xl.pc = "returned" /\ ~xl.complete_raised) =>
              xl.rows[<<"backup", xl.label>>] # "ACTIVE"

\* For a database whose name is not the word SNAPSHOT the label read back
\* is the label of the builder and the reserved slot is released.
ExtractedLabelIsBuiltLabel ==
    (xl # <<>> /\ xl.database # "SNAPSHOT") =>
        /\ xl.extracted # "none" => xl.extracted = xl.label
        /\ (xl.pc = "returned" /\ ~xl.complete_raised) =>
              xl.rows[<<"backup", xl.label>>] # "ACTIVE"

====
